---- MODULE Spec2Model ----
(***************************************************************************)
(* State-machine model of the LinkedIn job-trends scraper:                 *)
(*   - RequestHandler (utils/request_handler.py): HTTP with bounded retry  *)
(*   - JobListScraper (scrapers/job_list_scraper.py): count and page fetch *)
(*   - LinkedInScraper.scrape_all_jobs (scrapers/linkedin_scraper.py)      *)
(*                                                                         *)
(* Conventions.  A Python Optional value is a sequence of length <= 1:     *)
(* <<>> is None and <<v>> is the value v.  A DataFrame is the sequence of  *)
(* its rows, a row is a record over the 18 JobPosting columns.  A response *)
(* body is the structure BeautifulSoup finds in it (the label elements of  *)
(* the count view, the job cards and the link cards of a page).            *)
(***************************************************************************)
EXTENDS Integers, Sequences, FiniteSets, TLC

VARIABLES
    \* RequestHandler configuration (self.max_retries, ...)
    max_retries, base_delay, rate_limit_delay,
    \* the running make_request call
    rq_pc,       \* "idle" | "attempt" | "returned" | "raised"
    rq_url,      \* url of the call
    rq_method,   \* method of the call
    rq_trial,    \* current_trial of the active frame
    rq_start,    \* current_trial the call was entered with
    rq_http,     \* HTTP attempts issued by this call so far
    rq_nsleeps,  \* time.sleep calls made by this call so far
    rq_last,     \* <<>> or <<the last frame: trial, outcome, sleeps>>
    rq_ret,      \* return value of the call: <<>> None, <<response>>
    rq_client,   \* <<>> before any call, <<the RequestHandler instance of the call>>
    \* the running public operation of a scraper
    op,          \* "none" | "make_request" | "get_total_jobs" | "get_job_list" | "scrape_all_jobs"
    op_pc,       \* position inside the operation
    op_args,     \* its arguments
    counts_ret,  \* <<>> or <<value returned by get_total_jobs>>
    list_ret,    \* <<>> or <<DataFrame returned by get_job_list>>
    fetch_log,   \* urls handed to request_handler.get, in call order
    \* locals and effects of scrape_all_jobs
    total_jobs, actual_limit, position, jobs_df,
    page_log,    \* (position, DataFrame) of every get_job_list call made
    csv_file,    \* <<>> no listing file written, <<DataFrame>> its content
    sa_ret,      \* <<>> running, <<"None">> returned (None, None), <<"df">> returned (jobs_df, path)
    \* locals and effects of an enrichment stage (scrape_all_job_details,
    \* scrape_all_company_details)
    st_df,       \* the table pd.read_csv loaded
    st_i,        \* rows of st_df the loop has taken so far
    st_out,      \* jobs_with_details / jobs_with_company_details
    st_log,      \* per row taken: its index, the response of its fetch, whether it was appended
    st_ret,      \* <<>> running, <<result_df>> returned
    \* create_city_comparison and the series file of its job title
    series_file, \* [exists, readable, rows] of "{job_title}/TotalJobs/TotalJobs.csv"
    today,       \* datetime.now().strftime('%Y-%m-%d') as <<year, month, day>>
    cc_title,    \* job_title of the running create_city_comparison
    cc_cities,   \* its cities argument
    cc_data,     \* city_data: the rows collected so far
    cc_ret,      \* <<>> running, <<None>> or <<Some(df)>> returned
    cc_before,   \* the series file when the call was entered
    cc_runs,     \* calls of create_city_comparison entered so far
    \* run_complete_workflow and scrape_city_data
    wf_pc,       \* "idle" | "snapshot" | "city" | "done" | "raised"
    wf_titles,   \* its job_titles argument
    wf_cities,   \* its cities argument
    wf_t,        \* index of the job title of the current iteration
    wf_c,        \* index of the city of the current iteration
    wf_stage,    \* stage of the current city: "jobs" | "details" | "company"
    wf_visited,  \* what the loops have entered, in order
    \* a call of a function that performs no request
    fn,          \* the names of the functions called so far, each on the result before
    fn_arg,      \* the argument of the first call
    fn_ret       \* the result of the last call

clientVars == <<max_retries, base_delay, rate_limit_delay, rq_pc, rq_url, rq_method,
                rq_trial, rq_start, rq_http, rq_nsleeps, rq_last, rq_ret, rq_client>>
configVars == <<max_retries, base_delay, rate_limit_delay>>
opVars == <<op, op_pc, op_args, counts_ret, list_ret, fetch_log>>
listVars == <<total_jobs, actual_limit, position, jobs_df, page_log, csv_file, sa_ret>>
enrichVars == <<st_df, st_i, st_out, st_log, st_ret>>
snapVars == <<series_file, today, cc_title, cc_cities, cc_data, cc_ret, cc_before, cc_runs>>
wfVars == <<wf_pc, wf_titles, wf_cities, wf_t, wf_c, wf_stage, wf_visited>>
callVars == <<fn, fn_arg, fn_ret>>
\* the variables the request client and the listing fetcher never touch
laterVars == <<enrichVars, snapVars, wfVars, callVars>>
vars == <<clientVars, opVars, listVars, laterVars>>

----------------------------------------------------------------------------
(* Bounds of the model *)

\* max_retries of a constructed RequestHandler ranges over 0..MaxRetriesBound
MaxRetriesBound == 5
\* longest text of a count label, in characters
MaxLabelLen == 3
\* longest text of the total label in a scrape_all_jobs run
MaxTotalLen == 3
\* most job cards on a page of a get_job_list call
MaxCards == 2

(* Program constants *)

DefaultMaxRetries == 5
DefaultBaseDelay == 5
DefaultRateLimitDelay == 15
\* range(60, actual_limit, 10)
FirstContinuation == 60
PageStep == 10
\* scrape_city_data passes limit=100
CityLimit == 100

----------------------------------------------------------------------------
(* Values *)

None == <<>>
Some(v) == <<v>>

\* float('nan'), what pd.read_csv puts in a missing cell
NaN == <<"float", "nan">>

\* mutant of isna: NaN is not taken for missing
isna_none_only(x) == x = None

\* pd.isna(x) for a scalar
isna(x) == x = None \/ x = NaN

EmptyBody == [labels |-> <<None, None, None, None>>,
              job_postings |-> <<>>,
              job_posting_urls |-> <<>>,
              \* a job page: criteria texts, the two applicant captions, the
              \* content of the description meta tag, the text nodes of the
              \* description markup, the location text, the company link's href
              job_criteria |-> <<>>,
              applicants_span |-> None,
              applicants_figcaption |-> None,
              meta_description |-> None,
              description_markup |-> None,
              sub_nav_location |-> None,
              org_name_link |-> None,
              \* a company page: the dt and dd texts of each information element
              company_elements |-> <<>>]

Statuses == {200, 201, 429, 500}

\* What one HTTP attempt can end in: a response, or requests.RequestException
\* (okBodies: what a 200 response can carry, errBodies: what another can)
Outcomes(okBodies, errBodies) ==
    [kind : {"response"}, status : {200}, body : okBodies]
    \cup [kind : {"response"}, status : Statuses \ {200}, body : errBodies]
    \cup {[kind |-> "exception", status |-> 0, body |-> EmptyBody]}

Methods == {"GET", "get", "POST", "PUT"}

\* str.upper on the methods of the model
upper(method) == IF method = "get" THEN "GET" ELSE method

----------------------------------------------------------------------------
(* RequestHandler *)

\* mutants of handle_response: sleeping before the status is looked at;
\* retrying while current_trial <= max_retries; one delay for every status
handle_response_sleep_first(status, current_trial) ==
    IF status = 200
    THEN [result |-> "True", sleeps |-> <<base_delay * current_trial>>]
    ELSE IF current_trial < max_retries
    THEN IF status = 429
         THEN [result |-> "False", sleeps |-> <<rate_limit_delay * current_trial>>]
         ELSE [result |-> "False", sleeps |-> <<base_delay * current_trial>>]
    ELSE [result |-> "None", sleeps |-> <<>>]

handle_response_off_by_one(status, current_trial) ==
    IF status = 200
    THEN [result |-> "True", sleeps |-> <<>>]
    ELSE IF current_trial <= max_retries
    THEN IF status = 429
         THEN [result |-> "False", sleeps |-> <<rate_limit_delay * current_trial>>]
         ELSE [result |-> "False", sleeps |-> <<base_delay * current_trial>>]
    ELSE [result |-> "None", sleeps |-> <<>>]

handle_response_one_delay(status, current_trial) ==
    IF status = 200
    THEN [result |-> "True", sleeps |-> <<>>]
    ELSE IF current_trial < max_retries
    THEN [result |-> "False", sleeps |-> <<base_delay * current_trial>>]
    ELSE [result |-> "None", sleeps |-> <<>>]

\* handle_response: True / False / None and the sleeps it performed
handle_response(status, current_trial) ==
    IF status = 200
    THEN [result |-> "True", sleeps |-> <<>>]
    ELSE IF current_trial < max_retries
    THEN IF status = 429
         THEN [result |-> "False", sleeps |-> <<rate_limit_delay * current_trial>>]
         ELSE [result |-> "False", sleeps |-> <<base_delay * current_trial>>]
    ELSE [result |-> "None", sleeps |-> <<>>]

\* mutant of the exception branch: the rate-limit delay
on_request_exception_rate_limit(current_trial) ==
    IF current_trial < max_retries
    THEN [result |-> "False", sleeps |-> <<rate_limit_delay * current_trial>>]
    ELSE [result |-> "None", sleeps |-> <<>>]

\* the except requests.RequestException branch of make_request
on_request_exception(current_trial) ==
    IF current_trial < max_retries
    THEN [result |-> "False", sleeps |-> <<base_delay * current_trial>>]
    ELSE [result |-> "None", sleeps |-> <<>>]

\* mutant of make_request: the recursive call's value is not returned, so
\* only a success of the first frame reaches the caller
after_frame_no_return(result, response, current_trial) ==
    IF result = "True"
    THEN [pc |-> "returned",
          ret |-> IF current_trial = rq_start THEN Some(response) ELSE None,
          trial |-> current_trial]
    ELSE IF result = "False"
    THEN [pc |-> "attempt", ret |-> None, trial |-> current_trial + 1]
    ELSE [pc |-> "returned", ret |-> None, trial |-> current_trial]

\* mutant of make_request: the recursive call is made with current_trial
after_frame_same_trial(result, response, current_trial) ==
    IF result = "True"
    THEN [pc |-> "returned", ret |-> Some(response), trial |-> current_trial]
    ELSE IF result = "False"
    THEN [pc |-> "attempt", ret |-> None, trial |-> current_trial]
    ELSE [pc |-> "returned", ret |-> None, trial |-> current_trial]

\* what make_request does with the frame's result: return response /
\* recurse with current_trial + 1 / return None
after_frame(result, response, current_trial) ==
    IF result = "True"
    THEN [pc |-> "returned", ret |-> Some(response), trial |-> current_trial]
    ELSE IF result = "False"
    THEN [pc |-> "attempt", ret |-> None, trial |-> current_trial + 1]
    ELSE [pc |-> "returned", ret |-> None, trial |-> current_trial]

\* The RequestHandler instances a ScrapingOrchestrator holds: the one
\* LinkedInScraper.__init__ constructs and hands to its three scrapers, and
\* the one JobListScraper() constructs for the orchestrator's own scraper
shared_request_handler == "linkedin_scraper.request_handler"
own_request_handler == "orchestrator.job_list_scraper.request_handler"

\* entering make_request(url, method, headers, data, current_trial) of the
\* RequestHandler instance handler
StartRequestOn(handler, url, method, current_trial) ==
    /\ rq_client' = Some(handler)
    /\ rq_pc' = "attempt"
    /\ rq_url' = url
    /\ rq_method' = method
    /\ rq_trial' = current_trial
    /\ rq_start' = current_trial
    /\ rq_http' = 0
    /\ rq_nsleeps' = 0
    /\ rq_last' = <<>>
    /\ rq_ret' = None
    /\ UNCHANGED configVars

\* entering make_request of the handler the LinkedInScraper constructed
StartRequest(url, method, current_trial) ==
    StartRequestOn(shared_request_handler, url, method, current_trial)

\* one frame of make_request with a supported method: one HTTP attempt,
\* handle_response or the exception handler, then return or recurse
make_request_frame(okBodies, errBodies) ==
    /\ rq_pc = "attempt"
    /\ upper(rq_method) \in {"GET", "POST"}
    /\ \E o \in Outcomes(okBodies, errBodies) :
          LET response == [status |-> o.status, body |-> o.body, attempt |-> rq_http + 1]
              r == IF o.kind = "response"
                   THEN handle_response(o.status, rq_trial)
                   ELSE on_request_exception(rq_trial)
              nxt == after_frame(r.result, response, rq_trial)
          IN  /\ rq_http' = rq_http + 1
              /\ rq_nsleeps' = rq_nsleeps + Len(r.sleeps)
              /\ rq_last' = <<[trial |-> rq_trial, outcome |-> o, sleeps |-> r.sleeps]>>
              /\ rq_pc' = nxt.pc
              /\ rq_ret' = nxt.ret
              /\ rq_trial' = nxt.trial
    /\ UNCHANGED <<configVars, rq_url, rq_method, rq_start, rq_client>>

\* make_request with any other method: ValueError, which is no
\* RequestException and leaves make_request
make_request_unsupported ==
    /\ rq_pc = "attempt"
    /\ upper(rq_method) \notin {"GET", "POST"}
    /\ rq_pc' = "raised"
    /\ UNCHANGED <<configVars, rq_url, rq_method, rq_trial, rq_start, rq_http,
                   rq_nsleeps, rq_last, rq_ret, rq_client>>

\* RequestHandler.get(url, headers): make_request(url, "GET", headers)
get(url) == StartRequest(url, "GET", 0)

\* handler.get(url, headers) on a given RequestHandler instance
get_on(handler, url) == StartRequestOn(handler, url, "GET", 0)

----------------------------------------------------------------------------
(* JobPosting (models/job_posting.py) *)

Fields == {"title", "company", "location", "date_posted", "job_link", "description",
           "seniority_level", "employment_type", "job_function", "industries",
           "applicants", "company_url", "time_posted", "company_size", "founded",
           "company_type", "industry", "headquarters"}

\* JobPosting(title=, company=, location=, date_posted=, job_link=): the
\* other thirteen parameters default to None
JobPosting(title, company, location, date_posted, job_link) ==
    [f \in Fields |->
        CASE f = "title" -> title
          [] f = "company" -> company
          [] f = "location" -> location
          [] f = "date_posted" -> date_posted
          [] f = "job_link" -> job_link
          [] OTHER -> None]

\* JobPosting(**kwargs), lines 14-34: title and job_link have no default,
\* the other sixteen parameters default to None; a keyword that is no
\* parameter, and a call without title or job_link, raise TypeError
JobPostingKw(kwargs) ==
    IF {"title", "job_link"} \subseteq DOMAIN kwargs /\ DOMAIN kwargs \subseteq Fields
    THEN [f \in Fields |-> IF f \in DOMAIN kwargs THEN kwargs[f] ELSE None]
    ELSE [raised |-> "TypeError"]

\* DataFrame.empty: no row, or no column
empty(df) == Len(df) = 0 \/ DOMAIN df[1] = {}

\* to_dict returns self.__dict__: the mapping of the 18 attributes itself
to_dict(job) == [f \in Fields |-> job[f]]

\* the values an attribute holds: None, a text Some(t), the float NaN, and
\* the numbers, an int n and a float n.0
IntValue(n) == <<"number", "int", n>>
FloatValue(n) == <<"number", "float", n>>
is_number(x) == Len(x) = 3
is_object(x) == Len(x) <= 1

\* a value stored in a float64 array: None becomes NaN, an int its float
astype_float(x) ==
    IF x = None THEN NaN ELSE IF is_number(x) THEN FloatValue(x[3]) ELSE x

\* mutant of the inference: a column without a text is numeric, so that a
\* column of None alone is stored as NaN
maybe_convert_objects_numeric(column) ==
    IF \E i \in 1..Len(column) : is_object(column[i]) /\ column[i] # None
    THEN column
    ELSE [i \in 1..Len(column) |-> astype_float(column[i])]

\* the array pandas stores for the values of one column of a list of
\* dicts (lib.maybe_convert_objects): with a text in it, or nothing but
\* None, the objects as they are (dtype object); floats, or numbers beside
\* None, as float64; ints alone as int64
maybe_convert_objects(column) ==
    IF \/ \E i \in 1..Len(column) : is_object(column[i]) /\ column[i] # None
       \/ \A i \in 1..Len(column) : column[i] = None
    THEN column
    ELSE IF \E i \in 1..Len(column) : column[i] = None \/ column[i] = NaN
                                      \/ column[i] = astype_float(column[i])
    THEN [i \in 1..Len(column) |-> astype_float(column[i])]
    ELSE column

\* pd.DataFrame(records) of a list of dicts with the same keys: the columns
\* are the keys, each stored as inferred from its values
DataFrame(records) ==
    [i \in 1..Len(records) |->
        [f \in DOMAIN records[1] |->
            maybe_convert_objects([j \in 1..Len(records) |-> records[j][f]])[i]]]

\* line 106: pd.DataFrame([self.__dict__]), a DataFrame of one row
to_df(job) == DataFrame(<<to_dict(job)>>)

\* the dtype of a column of a frame
column_dtype(df, f) ==
    IF \E i \in 1..Len(df) : is_object(df[i][f]) THEN "object"
    ELSE IF \E i \in 1..Len(df) : df[i][f] = astype_float(df[i][f]) THEN "float64"
    ELSE "int64"

\* line 124: df.iloc[index], the row as a Series of the common dtype of
\* the columns: object leaves the values as they are, float64 beside int64
\* makes floats of the ints
iloc(df, index) ==
    LET dtypes == {column_dtype(df, f) : f \in DOMAIN df[index + 1]}
    IN  IF "object" \in dtypes THEN df[index + 1]
        ELSE IF "float64" \in dtypes
        THEN [f \in DOMAIN df[index + 1] |-> astype_float(df[index + 1][f])]
        ELSE df[index + 1]

\* from_df(df, index), index 0-based, lines 122-126: ValueError on an
\* empty frame and on an index past the last row; else
\* cls(**row.to_dict()), the values of the row Series under their column
\* names as the constructor's keyword arguments
from_df(df, index) ==
    IF empty(df) \/ index >= Len(df)
    THEN [raised |-> "ValueError"]
    ELSE JobPostingKw(iloc(df, index))

\* mutant of is_empty: all 18 fields are looked at
is_empty_all_fields(job) == \A f \in Fields : job[f] = None

is_empty(job) ==
    \A f \in {"title", "company", "location", "date_posted", "job_link", "description"} :
        job[f] = None

----------------------------------------------------------------------------
(* JobListScraper (scrapers/job_list_scraper.py) *)

JobTitles == {"Software Engineer", "Internship"}
Locations == {"Ottawa"}

\* urllib.parse.quote on the job titles of the model
quote(job_title) ==
    IF job_title = "Software Engineer" THEN "Software%20Engineer" ELSE job_title

\* _build_search_url: the search page for position 0, the seeMoreJobPostings
\* API with start=position otherwise
build_search_url(job_title, location, pos) ==
    IF pos = 0
    THEN [path |-> "/jobs/search", keywords |-> quote(job_title),
          location |-> location, position |-> 0, start |-> None]
    ELSE [path |-> "/jobs-guest/jobs/api/seeMoreJobPostings/search",
          keywords |-> quote(job_title), location |-> location,
          position |-> 1, start |-> Some(pos)]

\* Characters of a label's text, and the digits among them
Chars == {"0", "5", "7", "x"}
DigitChars == {"0", "1", "2", "3", "4", "5", "6", "7", "8", "9"}

DigitVal(c) ==
    CASE c = "0" -> 0 [] c = "1" -> 1 [] c = "2" -> 2 [] c = "3" -> 3 [] c = "4" -> 4
      [] c = "5" -> 5 [] c = "6" -> 6 [] c = "7" -> 7 [] c = "8" -> 8 [] c = "9" -> 9

\* re.findall(r'\d+', text): the maximal runs of digits, left to right
RECURSIVE scan_numbers(_, _, _)
scan_numbers(text, i, run) ==
    IF i > Len(text)
    THEN IF run = <<>> THEN <<>> ELSE <<run>>
    ELSE IF text[i] \in DigitChars
    THEN scan_numbers(text, i + 1, Append(run, text[i]))
    ELSE (IF run = <<>> THEN <<>> ELSE <<run>>) \o scan_numbers(text, i + 1, <<>>)

findall_numbers(text) == scan_numbers(text, 1, <<>>)

\* int() of a string of digits
RECURSIVE int(_)
int(digits) ==
    IF digits = <<>> THEN 0
    ELSE 10 * int(SubSeq(digits, 1, Len(digits) - 1)) + DigitVal(digits[Len(digits)])

\* mutant of extract_count: no number in the label gives None
extract_count_none(elem) ==
    IF elem # None
    THEN LET numbers == findall_numbers(elem[1])
         IN  IF numbers # <<>> THEN Some(int(numbers[Len(numbers)])) ELSE None
    ELSE Some(0)

\* extract_count(elem): the last number of the label's text, 0 when the
\* label is missing or holds no number
extract_count(elem) ==
    IF elem # None
    THEN LET numbers == findall_numbers(elem[1])
         IN  IF numbers # <<>> THEN Some(int(numbers[Len(numbers)])) ELSE Some(0)
    ELSE Some(0)

\* _parse_total_jobs: [total, past_month, past_week, past_24h]
\* mutant of _parse_total_jobs: the sentinel for a page without any count
parse_total_jobs_absent(body) ==
    IF \A i \in 1..4 : extract_count_none(body.labels[i]) \in {None, Some(0)}
    THEN <<None, None, None, None>>
    ELSE <<extract_count(body.labels[1]), extract_count(body.labels[2]),
           extract_count(body.labels[3]), extract_count(body.labels[4])>>

parse_total_jobs(body) ==
    <<extract_count(body.labels[1]), extract_count(body.labels[2]),
      extract_count(body.labels[3]), extract_count(body.labels[4])>>

AllNone == <<None, None, None, None>>

\* mutant of get_total_jobs: zero counts when the client failed
get_total_jobs_zero_on_failure(response) ==
    IF response = None
    THEN <<Some(0), Some(0), Some(0), Some(0)>>
    ELSE parse_total_jobs(response[1].body)

\* get_total_jobs, from the client's return value on
get_total_jobs(response) ==
    IF response = None
    THEN AllNone
    ELSE parse_total_jobs(response[1].body)

\* the sentinel DataFrame of get_job_list and _parse_jobs
SentinelDf == to_df(JobPosting(None, None, None, None, None))

\* the row _parse_jobs makes of the i-th job card
parse_card(body, i) ==
    LET job_posting == body.job_postings[i]
        date_elem == IF job_posting.listdate # None
                     THEN job_posting.listdate
                     ELSE job_posting.listdate_new
        job_link == IF i - 1 < Len(body.job_posting_urls)
                    THEN (IF body.job_posting_urls[i] # None
                          THEN body.job_posting_urls[i][1]
                          ELSE None)
                    ELSE None
    IN  to_dict(JobPosting(job_posting.title, job_posting.company,
                           job_posting.location, date_elem, job_link))

\* mutant of _parse_jobs: an empty DataFrame when no job card is found
parse_jobs_empty(body) ==
    IF body.job_postings = <<>>
    THEN <<>>
    ELSE [i \in 1..Len(body.job_postings) |-> parse_card(body, i)]

\* _parse_jobs: the sentinel when no job card is found, else a row per card
parse_jobs(body) ==
    IF body.job_postings = <<>>
    THEN SentinelDf
    ELSE [i \in 1..Len(body.job_postings) |-> parse_card(body, i)]

\* mutant of get_job_list: an empty DataFrame when the client failed
get_job_list_empty_on_failure(response) ==
    IF response = None
    THEN <<>>
    ELSE parse_jobs(response[1].body)

\* get_job_list, from the client's return value on
get_job_list(response) ==
    IF response = None
    THEN SentinelDf
    ELSE parse_jobs(response[1].body)

----------------------------------------------------------------------------
(* JobDetailsScraper (scrapers/job_details_scraper.py) *)

\* the columns of the DataFrame _parse_response builds
DetailColumns == {"location", "seniority_level", "employment_type", "job_function",
                  "industries", "applicants", "description", "time_posted", "company_url"}

\* ''.join(pieces)
RECURSIVE join(_)
join(pieces) == IF pieces = <<>> THEN "" ELSE Head(pieces) \o join(Tail(pieces))

\* the characters \s matches, and the class [\d:AMP\s]
Whitespace == {" ", "\n"}
TimeClass == DigitChars \cup {":", "A", "M", "P"} \cup Whitespace

\* how many characters of text from position i on are of the class
RECURSIVE class_run(_, _)
class_run(text, i) ==
    IF i <= Len(text) /\ text[i] \in TimeClass THEN 1 + class_run(text, i + 1) ELSE 0

\* re.match(r'Posted\s([\d:AMP\s]+)\.\s', content), then group(1) or None.
\* content is a sequence of characters, the word Posted being one element.
\* The class holds no '.', so only its longest run can be followed by one.
posted_time(content) ==
    LET n == class_run(content, 3)
    IN  IF /\ Len(content) >= n + 4
           /\ content[1] = "Posted"
           /\ content[2] \in Whitespace
           /\ n >= 1
           /\ content[n + 3] = "."
           /\ content[n + 4] \in Whitespace
        THEN Some(join(SubSeq(content, 3, n + 2)))
        ELSE None

\* description_elem.get_text(separator='\n').replace("\n", ""): the text
\* nodes joined, every newline removed
description_text(nodes) == join(SelectSeq(nodes, LAMBDA piece : piece # "\n"))

\* _parse_response: the one row of the DataFrame it returns
parse_details(body) ==
    LET job_criteria == body.job_criteria
        criterion(k) == IF Len(job_criteria) > k THEN Some(job_criteria[k + 1]) ELSE None
        applicants_elem == IF body.applicants_span # None
                           THEN body.applicants_span
                           ELSE body.applicants_figcaption
        time_posted == IF body.meta_description # None /\ body.meta_description[1] # <<>>
                       THEN posted_time(body.meta_description[1])
                       ELSE None
        description == IF body.description_markup # None
                       THEN Some(description_text(body.description_markup[1]))
                       ELSE None
        company_url == IF body.org_name_link # None THEN body.org_name_link[1] ELSE None
    IN  [location |-> body.sub_nav_location,
         seniority_level |-> criterion(0),
         employment_type |-> criterion(1),
         job_function |-> criterion(2),
         industries |-> criterion(3),
         applicants |-> applicants_elem,
         description |-> description,
         time_posted |-> time_posted,
         company_url |-> company_url]

\* mutant of get_job_details: no response yields a row
get_job_details_never(response) == <<>>

\* get_job_details after its request: a DataFrame without rows when the
\* client returned None, else the row parsed from the response
get_job_details(response) ==
    IF response = None THEN <<>> ELSE <<parse_details(response[1].body)>>

----------------------------------------------------------------------------
(* CompanyDetailsScraper (scrapers/company_details_scraper.py) *)

\* the dt texts of the model and key.replace(' ', '_').lower() of each
normalized_key(key) ==
    CASE key = "Company size" -> "company_size"
      [] key = "Founded" -> "founded"
      [] key = "Type" -> "type"
      [] key = "Industry" -> "industry"
      [] key = "Headquarters" -> "headquarters"
      [] key = "Website" -> "website"
      [] key = "company size" -> "company_size"
      [] OTHER -> key

\* _parse_response: the data dict, a later element replacing an earlier
\* one of the same key, as the one row of the DataFrame
parse_company(body) ==
    LET elements == SelectSeq(body.company_elements,
                              LAMBDA element : element.dt # None /\ element.dd # None)
        key(k) == normalized_key(elements[k].dt[1])
        keys == {key(k) : k \in 1..Len(elements)}
        last(name) == CHOOSE k \in 1..Len(elements) :
                         /\ key(k) = name
                         /\ \A j \in (k + 1)..Len(elements) : key(j) # name
        data == [name \in keys |-> Some(elements[last(name)].dd[1])]
    IN  <<data>>

\* get_company_details after its request: pd.DataFrame() when the client
\* returned None, else the parsed DataFrame
get_company_details(response) ==
    IF response = None THEN <<>> ELSE parse_company(response[1].body)

\* company_details.get(name, [None]).iloc[0] if name in company_details.columns else None
column_or_none(company_details, name) ==
    IF name \in DOMAIN company_details[1] THEN company_details[1][name] ELSE None

----------------------------------------------------------------------------
(* Specification of the request client alone *)

IdleClient ==
    /\ rq_pc = "idle"
    /\ rq_url = "" /\ rq_method = "GET"
    /\ rq_trial = 0 /\ rq_start = 0 /\ rq_http = 0 /\ rq_nsleeps = 0
    /\ rq_last = <<>> /\ rq_ret = None /\ rq_client = None

IdleOp ==
    /\ op = "none" /\ op_pc = "idle" /\ op_args = <<>>
    /\ counts_ret = <<>> /\ list_ret = <<>> /\ fetch_log = <<>>

IdleList ==
    /\ total_jobs = <<>> /\ actual_limit = 0 /\ position = 0
    /\ jobs_df = <<>> /\ page_log = <<>> /\ csv_file = <<>> /\ sa_ret = <<>>

IdleEnrich ==
    /\ st_df = <<>> /\ st_i = 0 /\ st_out = <<>> /\ st_log = <<>> /\ st_ret = <<>>

NoFile == [exists |-> FALSE, readable |-> FALSE, rows |-> <<>>]

IdleSnap ==
    /\ series_file = NoFile /\ today = <<>>
    /\ cc_title = "" /\ cc_cities = <<>> /\ cc_data = <<>> /\ cc_ret = <<>>
    /\ cc_before = NoFile /\ cc_runs = 0

IdleWorkflow ==
    /\ wf_pc = "idle" /\ wf_titles = <<>> /\ wf_cities = <<>>
    /\ wf_t = 0 /\ wf_c = 0 /\ wf_stage = "" /\ wf_visited = <<>>

IdleCall == fn = <<>> /\ fn_arg = <<>> /\ fn_ret = <<>>

\* RequestHandler(max_retries, base_delay, rate_limit_delay)
InitReq ==
    /\ max_retries \in 0..MaxRetriesBound
    /\ base_delay \in {1, DefaultBaseDelay}
    /\ rate_limit_delay \in {DefaultBaseDelay, DefaultRateLimitDelay}
    /\ IdleClient /\ IdleOp /\ IdleList
    /\ IdleEnrich /\ IdleSnap /\ IdleWorkflow /\ IdleCall

RawUrls == {"https://www.linkedin.com/jobs/view/1"}
RawBodies == {EmptyBody,
              [EmptyBody EXCEPT !.labels = <<Some(<<"7">>), None, None, None>>]}

\* a caller enters make_request with any method and any current_trial
CallMakeRequest ==
    /\ op = "none" /\ rq_pc = "idle"
    /\ \E u \in RawUrls, m \in Methods, t \in 0..(max_retries + 1) :
          /\ StartRequest(u, m, t)
          /\ op' = "make_request"
          /\ op_pc' = "fetching"
          /\ op_args' = <<u, m, t>>
    /\ UNCHANGED <<counts_ret, list_ret, fetch_log, listVars, laterVars>>

ReqFrame ==
    /\ op = "make_request"
    /\ make_request_frame(RawBodies, RawBodies)
    /\ UNCHANGED <<opVars, listVars, laterVars>>

ReqUnsupported ==
    /\ op = "make_request"
    /\ make_request_unsupported
    /\ UNCHANGED <<opVars, listVars, laterVars>>

NextReq == CallMakeRequest \/ ReqFrame \/ ReqUnsupported

SpecReq == InitReq /\ [][NextReq]_vars

----------------------------------------------------------------------------
(* Response bodies the scrapers are exercised on *)

SeqsUpTo(S, n) == UNION {[1..k -> S] : k \in 0..n}

\* a label element of the count view: missing, or its stripped text
LabelElems(n) == {None} \cup {Some(t) : t \in SeqsUpTo(Chars, n)}
FewLabelElems == {None, Some(<<"x">>), Some(<<"5", "x", "7">>)}

CountBodies ==
    {[EmptyBody EXCEPT !.labels = <<e1, e2, e3, e4>>] :
        e1 \in LabelElems(MaxLabelLen), e2 \in FewLabelElems,
        e3 \in FewLabelElems, e4 \in FewLabelElems}

\* a job card: the stripped text of each element found in it, None for an
\* element that is missing
Cards ==
    {[title |-> t, company |-> c, location |-> None, listdate |-> d[1], listdate_new |-> d[2]] :
        t \in {None, Some("Dev")}, c \in {Some("Acme")},
        d \in {<<None, None>>, <<None, Some("1 day ago")>>,
               <<Some("2 weeks ago"), Some("1 day ago")>>}}

\* a link card: no anchor found, an anchor without href, an anchor with one
LinkCards == {None, Some(None), Some(Some("https://www.linkedin.com/jobs/view/1"))}

PageBodies ==
    {[EmptyBody EXCEPT !.job_postings = cs, !.job_posting_urls = us] :
        cs \in SeqsUpTo(Cards, MaxCards), us \in SeqsUpTo(LinkCards, MaxCards)}

----------------------------------------------------------------------------
(* Specification of get_total_jobs and get_job_list, each called alone *)

\* RequestHandler(): the defaults
InitDefault ==
    /\ max_retries = DefaultMaxRetries
    /\ base_delay = DefaultBaseDelay
    /\ rate_limit_delay = DefaultRateLimitDelay
    /\ IdleClient /\ IdleOp /\ IdleList
    /\ IdleEnrich /\ IdleSnap /\ IdleWorkflow /\ IdleCall

\* get_total_jobs(job_title, location) up to its request
CallGetTotalJobs ==
    /\ op = "none" /\ rq_pc = "idle"
    /\ \E job_title \in JobTitles, location \in Locations :
          LET url == build_search_url(job_title, location, 0)
          IN  /\ get(url)
              /\ op' = "get_total_jobs"
              /\ op_pc' = "fetching"
              /\ op_args' = <<job_title, location>>
              /\ fetch_log' = Append(fetch_log, [by |-> "get_total_jobs", url |-> url])
    /\ UNCHANGED <<counts_ret, list_ret, listVars, laterVars>>

TotalJobsFrame ==
    /\ op = "get_total_jobs"
    /\ make_request_frame(CountBodies, {EmptyBody})
    /\ UNCHANGED <<opVars, listVars, laterVars>>

\* get_total_jobs from the client's return on
ReturnGetTotalJobs ==
    /\ op = "get_total_jobs" /\ op_pc = "fetching" /\ rq_pc = "returned"
    /\ counts_ret' = Some(get_total_jobs(rq_ret))
    /\ op_pc' = "done"
    /\ UNCHANGED <<clientVars, op, op_args, list_ret, fetch_log, listVars, laterVars>>

PagePositions == {0, FirstContinuation, FirstContinuation + PageStep}

\* get_job_list(job_title, location, position) up to its request
CallGetJobList ==
    /\ op = "none" /\ rq_pc = "idle"
    /\ \E job_title \in JobTitles, location \in Locations, pos \in PagePositions :
          LET url == build_search_url(job_title, location, pos)
          IN  /\ get(url)
              /\ op' = "get_job_list"
              /\ op_pc' = "fetching"
              /\ op_args' = <<job_title, location, pos>>
              /\ fetch_log' = Append(fetch_log, [by |-> "get_job_list", url |-> url])
    /\ UNCHANGED <<counts_ret, list_ret, listVars, laterVars>>

JobListFrame ==
    /\ op = "get_job_list"
    /\ make_request_frame(PageBodies, {EmptyBody})
    /\ UNCHANGED <<opVars, listVars, laterVars>>

\* get_job_list from the client's return on
ReturnGetJobList ==
    /\ op = "get_job_list" /\ op_pc = "fetching" /\ rq_pc = "returned"
    /\ list_ret' = Some(get_job_list(rq_ret))
    /\ op_pc' = "done"
    /\ UNCHANGED <<clientVars, op, op_args, counts_ret, fetch_log, listVars, laterVars>>

NextFetch ==
    \/ CallGetTotalJobs \/ TotalJobsFrame \/ ReturnGetTotalJobs
    \/ CallGetJobList \/ JobListFrame \/ ReturnGetJobList

SpecFetch == InitDefault /\ [][NextFetch]_vars

----------------------------------------------------------------------------
(* LinkedInScraper.scrape_all_jobs (scrapers/linkedin_scraper.py) *)

min(a, b) == IF a <= b THEN a ELSE b

\* range(start, stop, step) for a positive step, as the sequence it yields
range(start, stop, step) ==
    LET n == IF stop > start THEN (stop - start + step - 1) \div step ELSE 0
    IN  [k \in 1..n |-> start + (k - 1) * step]

\* mutant of page_range: the limit itself is still a position
page_range_inclusive(limit) == range(FirstContinuation, limit + 1, PageStep)

\* the positions of the pagination loop: range(60, actual_limit, 10)
page_range(limit) == range(FirstContinuation, limit, PageStep)

\* mutant of positions_after: the position just fetched is still to come
positions_after_same(pos, limit) == SelectSeq(page_range(limit), LAMBDA x : x >= pos)

\* the positions of the loop after position pos
positions_after(pos, limit) == SelectSeq(page_range(limit), LAMBDA x : x > pos)

\* mutant of page_exhausted: only an empty DataFrame ends the loop
page_exhausted_empty_only(new_jobs) == new_jobs = <<>>

\* new_jobs.empty or new_jobs['title'].isnull().all()
page_exhausted(new_jobs) ==
    \/ new_jobs = <<>>
    \/ \A i \in 1..Len(new_jobs) : new_jobs[i]["title"] = None

\* pd.concat([jobs_df, new_jobs], ignore_index=True)
concat(df, new_jobs) == df \o new_jobs

\* DataFrame.to_csv(index=False): a cell per column, empty for None and NaN
to_csv(df) ==
    [i \in 1..Len(df) |-> [f \in Fields |-> IF isna(df[i][f]) THEN "" ELSE df[i][f][1]]]

\* data_dir / f"{job_title}/{job_title} in {location}.csv"
listing_path(job_title, location) == <<job_title, job_title, " in ", location, ".csv">>

\* limit values scrape_all_jobs is called with
Limits == {65, CityLimit}

\* the count view of a scrape_all_jobs run: the total label varies
ListCountBodies ==
    {[EmptyBody EXCEPT !.labels = <<e, None, None, None>>] : e \in LabelElems(MaxTotalLen)}

\* the pages of a scrape_all_jobs run: no card; one titled card; one card
\* without a title; a titled card and one without, with a single link card
ListPages ==
    LET link == Some(Some("https://www.linkedin.com/jobs/view/1"))
        card(t, c) == [title |-> t, company |-> c, location |-> None,
                       listdate |-> None, listdate_new |-> Some("1 day ago")]
    IN  {EmptyBody,
         [EmptyBody EXCEPT !.job_postings = <<card(Some("Dev"), Some("Acme"))>>,
                           !.job_posting_urls = <<link>>],
         [EmptyBody EXCEPT !.job_postings = <<card(None, Some("Acme"))>>,
                           !.job_posting_urls = <<link>>],
         [EmptyBody EXCEPT !.job_postings = <<card(Some("QA"), None), card(None, Some("Acme"))>>,
                           !.job_posting_urls = <<link>>]}

\* scrape_all_jobs(job_title, location, limit) up to the request of
\* get_total_jobs
CallScrapeAllJobs ==
    /\ op = "none" /\ rq_pc = "idle"
    /\ \E job_title \in JobTitles, location \in Locations, limit \in Limits :
          LET url == build_search_url(job_title, location, 0)
          IN  /\ get(url)
              /\ op' = "scrape_all_jobs"
              /\ op_pc' = "count"
              /\ op_args' = <<job_title, location, limit>>
              /\ fetch_log' = Append(fetch_log, [by |-> "get_total_jobs", url |-> url])
    /\ UNCHANGED <<counts_ret, list_ret, listVars, laterVars>>

ScrapeCountFrame ==
    /\ op = "scrape_all_jobs" /\ op_pc = "count"
    /\ make_request_frame(ListCountBodies, {EmptyBody})
    /\ UNCHANGED <<opVars, listVars, laterVars>>

ScrapePageFrame ==
    /\ op = "scrape_all_jobs" /\ op_pc \in {"first", "page"}
    /\ make_request_frame(ListPages, {EmptyBody})
    /\ UNCHANGED <<opVars, listVars, laterVars>>

\* the request of get_job_list(job_title, location, pos)
FetchPage(pos) ==
    LET url == build_search_url(op_args[1], op_args[2], pos)
    IN  /\ get(url)
        /\ position' = pos
        /\ fetch_log' = Append(fetch_log, [by |-> "get_job_list", url |-> url])

\* return None, None
ReturnNone ==
    /\ sa_ret' = Some([df |-> None, path |-> None])
    /\ op_pc' = "done"
    /\ UNCHANGED <<clientVars, fetch_log, position, csv_file>>

\* jobs_df.to_csv(file_path); return jobs_df, str(file_path)
SaveAndReturn(df) ==
    /\ csv_file' = Some(to_csv(df))
    /\ sa_ret' = Some([df |-> Some(df), path |-> Some(listing_path(op_args[1], op_args[2]))])
    /\ op_pc' = "done"
    /\ UNCHANGED <<clientVars, fetch_log, position>>

\* lines 55-65: the count came back; abort without it, else fix
\* actual_limit and request the first page
AfterCount ==
    /\ op = "scrape_all_jobs" /\ op_pc = "count" /\ rq_pc = "returned"
    /\ LET tj == get_total_jobs(rq_ret)
       IN  /\ total_jobs' = tj
           /\ IF tj[1] = None
              THEN /\ ReturnNone
                   /\ UNCHANGED actual_limit
              ELSE /\ actual_limit' = min(tj[1][1], op_args[3])
                   /\ FetchPage(0)
                   /\ op_pc' = "first"
                   /\ UNCHANGED <<csv_file, sa_ret>>
    /\ UNCHANGED <<op, op_args, counts_ret, list_ret, jobs_df, page_log,
                   laterVars>>

\* lines 65-72: the first page came back; abort when the DataFrame is
\* empty, else enter the loop, or save when its range is empty
AfterFirstPage ==
    /\ op = "scrape_all_jobs" /\ op_pc = "first" /\ rq_pc = "returned"
    /\ LET df == get_job_list(rq_ret)
       IN  /\ jobs_df' = df
           /\ page_log' = Append(page_log, [position |-> position, df |-> df])
           /\ IF df = <<>>
              THEN ReturnNone
              ELSE IF page_range(actual_limit) # <<>>
              THEN /\ FetchPage(Head(page_range(actual_limit)))
                   /\ op_pc' = "page"
                   /\ UNCHANGED <<csv_file, sa_ret>>
              ELSE SaveAndReturn(df)
    /\ UNCHANGED <<op, op_args, counts_ret, list_ret, total_jobs, actual_limit,
                   laterVars>>

\* lines 75-89: a continuation page came back; break on an exhausted page,
\* else concatenate and go to the next position, or save after the last
AfterPage ==
    /\ op = "scrape_all_jobs" /\ op_pc = "page" /\ rq_pc = "returned"
    /\ LET new_jobs == get_job_list(rq_ret)
           rest == positions_after(position, actual_limit)
       IN  /\ page_log' = Append(page_log, [position |-> position, df |-> new_jobs])
           /\ IF page_exhausted(new_jobs)
              THEN /\ jobs_df' = jobs_df
                   /\ SaveAndReturn(jobs_df)
              ELSE /\ jobs_df' = concat(jobs_df, new_jobs)
                   /\ IF rest # <<>>
                      THEN /\ FetchPage(Head(rest))
                           /\ UNCHANGED <<op_pc, csv_file, sa_ret>>
                      ELSE SaveAndReturn(concat(jobs_df, new_jobs))
    /\ UNCHANGED <<op, op_args, counts_ret, list_ret, total_jobs, actual_limit,
                   laterVars>>

NextList ==
    \/ CallScrapeAllJobs \/ ScrapeCountFrame \/ ScrapePageFrame
    \/ AfterCount \/ AfterFirstPage \/ AfterPage

SpecList == InitDefault /\ [][NextList]_vars

----------------------------------------------------------------------------
(* The enrichment stages of LinkedInScraper: scrape_all_job_details and    *)
(* scrape_all_company_details (scrapers/linkedin_scraper.py)               *)

\* the cell texts pd.read_csv takes for a missing value (its default
\* na_values and the empty cell)
na_values == {"", "#N/A", "#N/A N/A", "#NA", "-1.#IND", "-1.#QNAN", "-NaN", "-nan",
              "1.#IND", "1.#QNAN", "<NA>", "N/A", "NA", "NULL", "NaN", "None",
              "n/a", "nan", "null"}

\* pd.read_csv raises EmptyDataError on the file an empty DataFrame without
\* columns was written to; a written table with rows has the 18 columns
read_csv_fails(file) == file = <<>>

\* pd.read_csv(file_path): a missing-value cell is NaN, another cell its
\* text (the cells of the model hold no numeric text)
read_csv(file) ==
    [i \in 1..Len(file) |->
        [f \in Fields |-> IF file[i][f] \in na_values THEN NaN ELSE Some(file[i][f])]]

\* the fields each stage takes from the page it fetched
DetailFields == {"description", "time_posted", "seniority_level", "employment_type",
                 "job_function", "industries", "applicants", "company_url"}
CompanyFields == {"company_size", "founded", "company_type", "industry", "headquarters"}
ListingFields == {"title", "company", "location", "date_posted", "job_link"}

\* mutant of details_posting: the location of the job page replaces the
\* location of the listing
details_posting_page_location(row, job_details) ==
    JobPostingKw([f \in ListingFields \cup DetailFields |->
                     IF f = "location" THEN job_details[1]["location"]
                     ELSE IF f \in ListingFields THEN row[f]
                     ELSE job_details[1][f]])

\* lines 122-136: the JobPosting of a row and the details fetched for it
details_posting(row, job_details) ==
    JobPostingKw([f \in ListingFields \cup DetailFields |->
                     IF f \in ListingFields THEN row[f] ELSE job_details[1][f]])

\* lines 178-197: the JobPosting of a row and the company details fetched
\* for it; the column type is the field company_type
company_posting(row, company_details) ==
    JobPostingKw([f \in Fields |->
                     IF f \notin CompanyFields THEN row[f]
                     ELSE IF f = "company_type" THEN column_or_none(company_details, "type")
                     ELSE column_or_none(company_details, f)])

\* mutant of link_field: both stages look at job_link
link_field_job_link(stage) == "job_link"

\* the link column of each stage
link_field(stage) ==
    IF stage = "scrape_all_job_details" THEN "job_link" ELSE "company_url"

\* the scraper function a stage fetches with
fetcher(stage) ==
    IF stage = "scrape_all_job_details" THEN "get_job_details" ELSE "get_company_details"

\* entering a stage: df = pd.read_csv(file_path), the output list empty
EnterStage(stage) ==
    /\ op' = stage
    /\ op_args' = <<>>
    /\ IF read_csv_fails(csv_file[1])
       THEN /\ op_pc' = "raised"
            /\ st_df' = <<>>
       ELSE /\ op_pc' = "loop"
            /\ st_df' = read_csv(csv_file[1])
    /\ st_i' = 0 /\ st_out' = <<>> /\ st_log' = <<>> /\ st_ret' = <<>>

\* the head of the for loop: the next row, skipped when its link is
\* missing, else the request of its fetch; after the last row
\* pd.DataFrame(out).to_csv(file_path, index=False) and the return
StageNextRow(stage) ==
    /\ op = stage /\ op_pc = "loop"
    /\ IF st_i = Len(st_df)
       THEN /\ csv_file' = Some(to_csv(st_out))
            /\ st_ret' = Some(st_out)
            /\ op_pc' = "done"
            /\ UNCHANGED <<clientVars, fetch_log, st_i, st_log>>
       ELSE LET url == st_df[st_i + 1][link_field(stage)]
            IN  /\ st_i' = st_i + 1
                /\ IF isna(url)
                   THEN /\ st_log' = Append(st_log, [row |-> st_i + 1, fetched |-> FALSE,
                                                     body |-> None, kept |-> FALSE])
                        /\ UNCHANGED <<clientVars, fetch_log, op_pc>>
                   ELSE /\ get(url[1])
                        /\ fetch_log' = Append(fetch_log, [by |-> fetcher(stage), url |-> url[1]])
                        /\ op_pc' = "fetch"
                        /\ UNCHANGED st_log
                /\ UNCHANGED <<csv_file, st_ret>>
    /\ UNCHANGED <<op, op_args, counts_ret, list_ret, st_df, st_out>>

\* the body of the response a fetch returned, None without a response
body_of(response) == IF response = None THEN None ELSE Some(response[1].body)

\* lines 115-138: the details of the row came back; the row is left out
\* when they are empty, else its JobPosting is appended
AfterJobDetails ==
    /\ op = "scrape_all_job_details" /\ op_pc = "fetch" /\ rq_pc = "returned"
    /\ LET job_details == get_job_details(rq_ret)
           kept == ~empty(job_details)
       IN  /\ st_out' = IF kept
                        THEN Append(st_out, to_dict(details_posting(st_df[st_i], job_details)))
                        ELSE st_out
           /\ st_log' = Append(st_log, [row |-> st_i, fetched |-> TRUE,
                                        body |-> body_of(rq_ret), kept |-> kept])
    /\ op_pc' = "loop"
    /\ UNCHANGED <<clientVars, op, op_args, counts_ret, list_ret, fetch_log,
                   st_df, st_i, st_ret>>

\* lines 171-199: the same for the company details of the row
AfterCompanyDetails ==
    /\ op = "scrape_all_company_details" /\ op_pc = "fetch" /\ rq_pc = "returned"
    /\ LET company_details == get_company_details(rq_ret)
           kept == ~empty(company_details)
       IN  /\ st_out' = IF kept
                        THEN Append(st_out, to_dict(company_posting(st_df[st_i], company_details)))
                        ELSE st_out
           /\ st_log' = Append(st_log, [row |-> st_i, fetched |-> TRUE,
                                        body |-> body_of(rq_ret), kept |-> kept])
    /\ op_pc' = "loop"
    /\ UNCHANGED <<clientVars, op, op_args, counts_ret, list_ret, fetch_log,
                   st_df, st_i, st_ret>>

----------------------------------------------------------------------------
(* Specification of the two enrichment stages run on a listing file *)

\* most rows of the listing file the stages are run on
MaxRows == 2

JobUrl == "https://www.linkedin.com/jobs/view/1"
JobUrl2 == "https://www.linkedin.com/jobs/view/2"
CompanyUrl == "https://www.linkedin.com/company/acme"

\* rows of a listing file: a full one, one with a title, a link and a
\* company text read_csv takes for missing, and the row of the sentinel,
\* which has no link
ListingRows ==
    LET cells(title, company, location, date_posted, job_link) ==
            to_csv(to_df(JobPosting(title, company, location, date_posted, job_link)))[1]
    IN  {cells(Some("Dev"), Some("Acme"), Some("Ottawa, ON"), Some("2024-05-01"), Some(JobUrl)),
         cells(Some("QA"), Some("N/A"), None, None, Some(JobUrl2)),
         to_csv(SentinelDf)[1]}

\* the listing files: scrape_all_jobs writes no file without a row
ListingFiles == SeqsUpTo(ListingRows, MaxRows) \ {<<>>}

\* job pages: nothing the parser looks for; every element; some elements
\* and a company link without href
DetailBodies ==
    {EmptyBody,
     [EmptyBody EXCEPT !.job_criteria = <<"Entry level", "Full-time", "IT", "Software">>,
                       !.applicants_figcaption = Some("25 applicants"),
                       !.meta_description = Some(<<"Posted", " ", "1", "0", ":", "0", "5", " ",
                                                   "A", "M", ".", " ", "Dev">>),
                       !.description_markup = Some(<<"Build", "\n", " APIs">>),
                       !.sub_nav_location = Some("Toronto, ON"),
                       !.org_name_link = Some(Some(CompanyUrl))],
     [EmptyBody EXCEPT !.job_criteria = <<"Entry level">>,
                       !.applicants_span = Some("Be an early applicant"),
                       !.applicants_figcaption = Some("25 applicants"),
                       !.meta_description = Some(<<"Posted", " ", "x", ".", " ">>),
                       !.sub_nav_location = Some("Toronto, ON"),
                       !.org_name_link = Some(None)]}

\* company pages: no information element; the five known ones, one key
\* twice; an unknown key only; an element without dd
CompanyBodies ==
    LET element(dt, dd) == [dt |-> dt, dd |-> dd]
    IN  {EmptyBody,
         [EmptyBody EXCEPT !.company_elements =
             <<element(Some("Company size"), Some("2-10 employees")),
               element(Some("Founded"), Some("est. 2010")),
               element(Some("Type"), Some("Privately Held")),
               element(Some("Industry"), Some("Software")),
               element(Some("Headquarters"), Some("Ottawa, ON")),
               element(Some("company size"), Some("11-50 employees"))>>],
         [EmptyBody EXCEPT !.company_elements =
             <<element(Some("Website"), Some("acme.example"))>>],
         [EmptyBody EXCEPT !.company_elements =
             <<element(Some("Founded"), None)>>]}

InitEnrich ==
    /\ max_retries = DefaultMaxRetries
    /\ base_delay = DefaultBaseDelay
    /\ rate_limit_delay = DefaultRateLimitDelay
    /\ IdleClient /\ IdleOp
    /\ total_jobs = <<>> /\ actual_limit = 0 /\ position = 0
    /\ jobs_df = <<>> /\ page_log = <<>> /\ sa_ret = <<>>
    /\ csv_file \in {Some(file) : file \in ListingFiles}
    /\ IdleEnrich /\ IdleSnap /\ IdleWorkflow /\ IdleCall

\* scrape_all_job_details(file_path) on the listing file
CallScrapeAllJobDetails ==
    /\ op = "none"
    /\ EnterStage("scrape_all_job_details")
    /\ UNCHANGED <<clientVars, counts_ret, list_ret, fetch_log, listVars, snapVars, wfVars, callVars>>

\* scrape_all_company_details(file_path) on the file the first stage wrote
CallScrapeAllCompanyDetails ==
    /\ op = "scrape_all_job_details" /\ op_pc = "done"
    /\ EnterStage("scrape_all_company_details")
    /\ UNCHANGED <<clientVars, counts_ret, list_ret, fetch_log, listVars, snapVars, wfVars, callVars>>

JobDetailsNextRow ==
    /\ StageNextRow("scrape_all_job_details")
    /\ UNCHANGED <<total_jobs, actual_limit, position, jobs_df, page_log, sa_ret,
                   snapVars, wfVars, callVars>>

CompanyDetailsNextRow ==
    /\ StageNextRow("scrape_all_company_details")
    /\ UNCHANGED <<total_jobs, actual_limit, position, jobs_df, page_log, sa_ret,
                   snapVars, wfVars, callVars>>

JobDetailsFrame ==
    /\ op = "scrape_all_job_details" /\ op_pc = "fetch"
    /\ make_request_frame(DetailBodies, {EmptyBody})
    /\ UNCHANGED <<opVars, listVars, laterVars>>

CompanyDetailsFrame ==
    /\ op = "scrape_all_company_details" /\ op_pc = "fetch"
    /\ make_request_frame(CompanyBodies, {EmptyBody})
    /\ UNCHANGED <<opVars, listVars, laterVars>>

JobDetailsReturned ==
    /\ AfterJobDetails
    /\ UNCHANGED <<listVars, snapVars, wfVars, callVars>>

CompanyDetailsReturned ==
    /\ AfterCompanyDetails
    /\ UNCHANGED <<listVars, snapVars, wfVars, callVars>>

NextEnrich ==
    \/ CallScrapeAllJobDetails \/ JobDetailsNextRow \/ JobDetailsFrame \/ JobDetailsReturned
    \/ CallScrapeAllCompanyDetails \/ CompanyDetailsNextRow \/ CompanyDetailsFrame
    \/ CompanyDetailsReturned

SpecEnrich == InitEnrich /\ [][NextEnrich]_vars

----------------------------------------------------------------------------
(* ScrapingOrchestrator.create_city_comparison (core/orchestrator.py)      *)

DefaultCities == <<"Ottawa", "Toronto", "Montreal", "Vancouver", "Calgary", "Edmonton">>

SeriesColumns == {"City", "24h_Jobs", "Week_Jobs", "Month_Jobs", "Total_Jobs", "Date"}

\* datetime.datetime.now().strftime('%Y-%m-%d'): the date of the moment,
\* its time of day dropped; the text is kept as <<year, month, day>>
strftime(now) == <<now.year, now.month, now.day>>

\* a <= b for two texts of the form YYYY-MM-DD
text_le(a, b) ==
    \/ a[1] < b[1]
    \/ a[1] = b[1] /\ a[2] < b[2]
    \/ a[1] = b[1] /\ a[2] = b[2] /\ a[3] <= b[3]

\* mutant of all_absent: no result is taken for the sentinel
all_absent_never(result) == FALSE

\* result == [None, None, None, None]
all_absent(result) == result = <<None, None, None, None>>

\* lines 76-81: the row of a city, its counts [total, month, week, 24h]
\* and the date text
series_row(city, counts, date) ==
    [c \in SeriesColumns |->
        CASE c = "City" -> Some(city)
          [] c = "24h_Jobs" -> counts[4]
          [] c = "Week_Jobs" -> counts[3]
          [] c = "Month_Jobs" -> counts[2]
          [] c = "Total_Jobs" -> counts[1]
          [] c = "Date" -> Some(date)]

\* a cell of the series file is <<>> when empty, else <<its value>>;
\* pd.read_csv makes NaN of an empty cell (the number format of a column
\* is not modelled)
series_read_csv(rows) ==
    [i \in 1..Len(rows) |->
        [c \in SeriesColumns |-> IF rows[i][c] = None THEN NaN ELSE rows[i][c]]]

\* df.to_csv(total_jobs_file, index=False)
series_to_csv(df) ==
    [i \in 1..Len(df) |->
        [c \in SeriesColumns |-> IF isna(df[i][c]) THEN None ELSE df[i][c]]]

\* df.sort_values(by='Date'): numpy's quicksort is an insertion sort on a
\* table of at most 16 rows, which keeps rows of one date in their order;
\* a row comes behind the rows of an earlier date and the rows of its own
\* date that are before it in df
sort_values(df) ==
    LET date(i) == df[i]["Date"][1]
        place(i) ==
            Cardinality({j \in 1..Len(df) : ~text_le(date(i), date(j))})
            + Cardinality({j \in 1..i : date(j) = date(i)})
    IN  [p \in 1..Len(df) |-> df[CHOOSE i \in 1..Len(df) : place(i) = p]]

\* mutant of the loading of the existing file: its rows are recovered even
\* when pd.read_csv raises
existing_df_recovered(file) ==
    IF file.exists THEN series_read_csv(file.rows) ELSE <<>>

\* what lines 86-91 load: the table of a file that exists and can be
\* read; nothing when there is no file, or when pd.read_csv raised and the
\* except branch logged it
existing_df(file) ==
    IF file.exists /\ file.readable THEN series_read_csv(file.rows) ELSE <<>>

\* entering create_city_comparison(job_title, cities) with the series file
\* of the job title as it is, the log of fetches started anew: with
\* cities=None
\* the relative import of the settings raises ImportError (the package
\* has no parent three levels up)
EnterCityComparison(job_title, cities, file) ==
    /\ op' = "create_city_comparison"
    /\ op_args' = <<job_title, cities>>
    /\ cc_title' = job_title
    /\ cc_cities' = IF cities = None THEN <<>> ELSE cities[1]
    /\ cc_data' = <<>>
    /\ cc_ret' = <<>>
    /\ cc_before' = file
    /\ counts_ret' = <<>>
    /\ fetch_log' = <<>>
    /\ cc_runs' = cc_runs + 1
    /\ op_pc' = IF cities = None THEN "raised" ELSE "loop"

\* lines 62-65: the next city's get_total_jobs on the orchestrator's own
\* JobListScraper; after the last city lines 75-98: the rows of this run,
\* the existing table in front of them, sorted, written and returned
ComparisonNextCity(moments) ==
    /\ op = "create_city_comparison" /\ op_pc = "loop"
    /\ IF Len(cc_data) < Len(cc_cities)
       THEN LET url == build_search_url(cc_title, cc_cities[Len(cc_data) + 1], 0)
            IN  /\ get_on(own_request_handler, url)
                /\ fetch_log' = Append(fetch_log, [by |-> "get_total_jobs", url |-> url])
                /\ op_pc' = "fetch"
                /\ UNCHANGED <<series_file, today, cc_ret>>
       ELSE \E now \in moments :
               LET new == [k \in 1..Len(cc_cities) |->
                              series_row(cc_cities[k], cc_data[k], strftime(now))]
                   df == sort_values(existing_df(series_file) \o new)
               IN  /\ today' = strftime(now)
                   /\ series_file' = [exists |-> TRUE, readable |-> TRUE,
                                      rows |-> series_to_csv(df)]
                   /\ cc_ret' = Some(Some(df))
                   /\ op_pc' = "done"
                   /\ UNCHANGED <<clientVars, fetch_log>>
    /\ UNCHANGED <<op, op_args, counts_ret, list_ret, cc_title, cc_cities, cc_data, cc_before,
                   cc_runs>>

\* lines 65-71: the counts of the city came back; return None on the
\* sentinel, else keep them
AfterCityCount ==
    /\ op = "create_city_comparison" /\ op_pc = "fetch" /\ rq_pc = "returned"
    /\ LET result == get_total_jobs(rq_ret)
       IN  /\ counts_ret' = Some(result)
           /\ IF all_absent(result)
              THEN /\ cc_ret' = Some(None)
                   /\ op_pc' = "done"
                   /\ UNCHANGED cc_data
              ELSE /\ cc_data' = Append(cc_data, result)
                   /\ op_pc' = "loop"
                   /\ UNCHANGED cc_ret
    /\ UNCHANGED <<clientVars, op, op_args, list_ret, fetch_log, series_file, today,
                   cc_title, cc_cities, cc_before, cc_runs>>

----------------------------------------------------------------------------
(* Specification of repeated create_city_comparison calls of one job title *)

\* longest cities argument, and most calls made
MaxCities == 2
MaxRuns == 2

CityLists == {SubSeq(DefaultCities, 1, k) : k \in 0..MaxCities}

\* the moments the calls are made at: a morning and the evening before
Moments == {[year |-> 2024, month |-> 5, day |-> 2, hour |-> 9],
            [year |-> 2024, month |-> 5, day |-> 1, hour |-> 17]}

\* the count view: its four labels, the last without a number
SnapCountBodies ==
    {[EmptyBody EXCEPT !.labels = <<Some(<<"7", "0">>), Some(<<"7">>), Some(<<"5">>),
                                    Some(<<"x">>)>>]}

\* the series file before the first call: none; one with a row of the
\* earlier day; such a file that pd.read_csv cannot decode
SeriesFiles ==
    LET row(date) == series_to_csv(<<series_row("Ottawa", <<Some(5), Some(5), Some(0), Some(0)>>,
                                                date)>>)
    IN  {NoFile,
         [exists |-> TRUE, readable |-> TRUE, rows |-> row(<<2024, 5, 1>>)],
         [exists |-> TRUE, readable |-> FALSE, rows |-> row(<<2024, 5, 1>>)]}

InitSnap ==
    /\ max_retries = DefaultMaxRetries
    /\ base_delay = DefaultBaseDelay
    /\ rate_limit_delay = DefaultRateLimitDelay
    /\ IdleClient /\ IdleOp /\ IdleList /\ IdleEnrich /\ IdleWorkflow /\ IdleCall
    /\ series_file \in SeriesFiles
    /\ today = <<>>
    /\ cc_title = "" /\ cc_cities = <<>> /\ cc_data = <<>> /\ cc_ret = <<>>
    /\ cc_before = NoFile /\ cc_runs = 0

\* create_city_comparison(job_title, cities), once more after a call that
\* has returned
CallCreateCityComparison ==
    /\ op = "none" \/ (op = "create_city_comparison" /\ op_pc = "done")
    /\ cc_runs < MaxRuns
    /\ \E cities \in {None} \cup {Some(l) : l \in CityLists} :
          EnterCityComparison("Software Engineer", cities, series_file)
    /\ UNCHANGED <<clientVars, list_ret, series_file, today, listVars, enrichVars, wfVars, callVars>>

SnapNextCity ==
    /\ ComparisonNextCity(Moments)
    /\ UNCHANGED <<listVars, enrichVars, wfVars, callVars>>

SnapCountFrame ==
    /\ op = "create_city_comparison" /\ op_pc = "fetch"
    /\ make_request_frame(SnapCountBodies, {EmptyBody})
    /\ UNCHANGED <<opVars, listVars, laterVars>>

SnapCountReturned ==
    /\ AfterCityCount
    /\ UNCHANGED <<listVars, enrichVars, wfVars, callVars>>

NextSnap ==
    \/ CallCreateCityComparison \/ SnapNextCity \/ SnapCountFrame \/ SnapCountReturned

SpecSnap == InitSnap /\ [][NextSnap]_vars

----------------------------------------------------------------------------
(* Specification of create_city_comparison calls on pages without counts *)

\* count pages answered with status 200 that no count can be taken from:
\* one with no label found, one whose first label has no number
NoCountBodies ==
    {EmptyBody,
     [EmptyBody EXCEPT !.labels = <<Some(<<"x">>), None, None, None>>]}

NoCountFrame ==
    /\ op = "create_city_comparison" /\ op_pc = "fetch"
    /\ make_request_frame(NoCountBodies, {EmptyBody})
    /\ UNCHANGED <<opVars, listVars, laterVars>>

NextSnapNoCount ==
    \/ CallCreateCityComparison \/ SnapNextCity \/ NoCountFrame \/ SnapCountReturned

SpecSnapNoCount == InitSnap /\ [][NextSnapNoCount]_vars

----------------------------------------------------------------------------
(* ScrapingOrchestrator.run_complete_workflow and scrape_city_data         *)
(* (core/orchestrator.py)                                                  *)

DefaultJobPositions == <<"Software Engineer", "Internship">>

\* entering scrape_all_jobs(job_title, location, limit) with fresh locals
\* and a fresh log, up to the request of get_total_jobs
EnterScrapeAllJobs(job_title, location, limit) ==
    LET url == build_search_url(job_title, location, 0)
    IN  /\ get(url)
        /\ op' = "scrape_all_jobs"
        /\ op_pc' = "count"
        /\ op_args' = <<job_title, location, limit>>
        /\ fetch_log' = <<[by |-> "get_total_jobs", url |-> url]>>
        /\ total_jobs' = <<>> /\ actual_limit' = 0 /\ position' = 0
        /\ jobs_df' = <<>> /\ page_log' = <<>> /\ sa_ret' = <<>>
        /\ csv_file' = None
        /\ st_df' = <<>> /\ st_i' = 0 /\ st_out' = <<>> /\ st_log' = <<>> /\ st_ret' = <<>>

\* run_complete_workflow(job_titles, cities): with job_titles=None the
\* relative import of the settings raises ImportError outside every try
CallRunCompleteWorkflow(job_titles, cities) ==
    /\ wf_pc = "idle"
    /\ wf_titles' = job_titles
    /\ wf_cities' = cities
    /\ wf_pc' = IF job_titles = None THEN "raised" ELSE "titles"
    /\ UNCHANGED <<wf_t, wf_c, wf_stage, wf_visited>>

\* line 159: the next job title and its create_city_comparison, which
\* finds the series file of the title; after the last title the return
WorkflowNextTitle(files) ==
    /\ wf_pc = "titles"
    /\ IF wf_t < Len(wf_titles[1])
       THEN /\ wf_t' = wf_t + 1
            /\ wf_visited' = Append(wf_visited, [kind |-> "title",
                                                 name |-> wf_titles[1][wf_t + 1]])
            /\ wf_pc' = "snapshot"
            /\ \E file \in files :
                  /\ series_file' = file
                  /\ EnterCityComparison(wf_titles[1][wf_t + 1], wf_cities, file)
       ELSE /\ wf_pc' = "done"
            /\ UNCHANGED <<op, op_pc, op_args, counts_ret, fetch_log, wf_t, wf_visited,
                           series_file, cc_title, cc_cities, cc_data, cc_ret, cc_before,
                           cc_runs>>
    /\ UNCHANGED <<clientVars, list_ret, today, wf_titles, wf_cities, wf_c, wf_stage>>

\* mutant of the test of line 165: every returned snapshot passes
comparison_df_returned(pc, comparison_df) == pc = "done"

\* lines 164-165 and 177: the call returned, not raised, and
\* comparison_df is not None
comparison_df_is_table(pc, comparison_df) ==
    pc = "done" /\ comparison_df # Some(None)

\* lines 164-179: create_city_comparison is over; a fault and a None end
\* the iteration of the title, a table starts scrape_city_data
AfterCityComparison ==
    /\ wf_pc = "snapshot"
    /\ op = "create_city_comparison" /\ op_pc \in {"done", "raised"}
    /\ LET ok == comparison_df_is_table(op_pc, cc_ret)
       IN  /\ wf_visited' = Append(wf_visited, [kind |-> "snapshot",
                                                name |-> IF ok THEN "table" ELSE "None"])
           /\ wf_pc' = IF ok THEN "cities" ELSE "titles"
    /\ wf_c' = 0
    /\ op' = "none" /\ op_pc' = "idle"
    /\ UNCHANGED <<clientVars, op_args, counts_ret, list_ret, fetch_log, snapVars,
                   wf_titles, wf_cities, wf_t, wf_stage, callVars>>

\* line 114: the next city and its scrape_all_jobs with limit=100; after
\* the last city the iteration of the title ends
WorkflowNextCity ==
    /\ wf_pc = "cities"
    /\ IF wf_c < Len(wf_cities[1])
       THEN /\ wf_c' = wf_c + 1
            /\ wf_visited' = Append(wf_visited, [kind |-> "city",
                                                 name |-> wf_cities[1][wf_c + 1]])
            /\ wf_pc' = "city"
            /\ wf_stage' = "jobs"
            /\ EnterScrapeAllJobs(wf_titles[1][wf_t], wf_cities[1][wf_c + 1], CityLimit)
            /\ UNCHANGED <<counts_ret, list_ret>>
       ELSE /\ wf_pc' = "titles"
            /\ UNCHANGED <<clientVars, opVars, listVars, enrichVars, wf_c, wf_stage,
                           wf_visited, callVars>>
    /\ UNCHANGED <<snapVars, wf_titles, wf_cities, wf_t, callVars>>

\* lines 119-133: a stage of the city has returned; the next stage is
\* entered, the city is over after the last stage and when scrape_all_jobs
\* returned no table
AfterCityStage ==
    /\ wf_pc = "city" /\ op_pc = "done"
    /\ IF wf_stage = "jobs" /\ sa_ret[1].df # None
       THEN /\ EnterStage("scrape_all_job_details")
            /\ wf_stage' = "details"
            /\ UNCHANGED wf_pc
       ELSE IF wf_stage = "details"
       THEN /\ EnterStage("scrape_all_company_details")
            /\ wf_stage' = "company"
            /\ UNCHANGED wf_pc
       ELSE /\ op' = "none" /\ op_pc' = "idle"
            /\ wf_pc' = "cities"
            /\ UNCHANGED <<op_args, enrichVars, wf_stage, callVars>>
    /\ UNCHANGED <<clientVars, counts_ret, list_ret, fetch_log, listVars, snapVars,
                   wf_titles, wf_cities, wf_t, wf_c, wf_visited, callVars>>

\* lines 141-143: except Exception in the loop of scrape_city_data logs the
\* fault and continues with the next city
city_fault == "cities"

\* a stage of the city has raised
CityStageRaised ==
    /\ wf_pc = "city" /\ op_pc = "raised"
    /\ wf_pc' = city_fault
    /\ op' = "none" /\ op_pc' = "idle"
    /\ UNCHANGED <<clientVars, op_args, counts_ret, list_ret, fetch_log, listVars,
                   enrichVars, snapVars, wf_titles, wf_cities, wf_t, wf_c, wf_stage,
                   wf_visited, callVars>>

----------------------------------------------------------------------------
(* Specification of a run_complete_workflow call *)

JobTitleLists == {SubSeq(DefaultJobPositions, 1, k) : k \in 0..Len(DefaultJobPositions)}

\* the count view of a city's listing: a total of 7, a total of 70
WorkflowCountBodies ==
    {[EmptyBody EXCEPT !.labels = <<Some(<<"7">>), None, None, None>>],
     [EmptyBody EXCEPT !.labels = <<Some(<<"7", "0">>), None, None, None>>]}

\* the pages of a city's listing: no card, and one card with its link
WorkflowPages ==
    {EmptyBody,
     [EmptyBody EXCEPT !.job_postings = <<[title |-> Some("Dev"), company |-> Some("Acme"),
                                           location |-> None, listdate |-> None,
                                           listdate_new |-> Some("1 day ago")]>>,
                       !.job_posting_urls = <<Some(Some(JobUrl))>>]}

\* the job page and the company page of the workflow: with nothing, and
\* with the company link, respectively the founding year
WorkflowDetailBodies ==
    {EmptyBody, [EmptyBody EXCEPT !.org_name_link = Some(Some(CompanyUrl))]}
WorkflowCompanyBodies ==
    {EmptyBody,
     [EmptyBody EXCEPT !.company_elements = <<[dt |-> Some("Founded"), dd |-> Some("est. 2010")]>>]}

InitWorkflow ==
    /\ max_retries = DefaultMaxRetries
    /\ base_delay = DefaultBaseDelay
    /\ rate_limit_delay = DefaultRateLimitDelay
    /\ IdleClient /\ IdleOp /\ IdleList /\ IdleEnrich /\ IdleSnap /\ IdleWorkflow /\ IdleCall

RunCompleteWorkflow ==
    /\ \E job_titles \in {None} \cup {Some(l) : l \in JobTitleLists},
          cities \in {None} \cup {Some(l) : l \in CityLists} :
          CallRunCompleteWorkflow(job_titles, cities)
    /\ UNCHANGED <<clientVars, opVars, listVars, enrichVars, snapVars, callVars>>

WfNextTitle ==
    /\ WorkflowNextTitle({NoFile})
    /\ UNCHANGED <<listVars, enrichVars, callVars>>

WfSnapNextCity ==
    /\ wf_pc = "snapshot"
    /\ ComparisonNextCity({[year |-> 2024, month |-> 5, day |-> 2, hour |-> 9]})
    /\ UNCHANGED <<listVars, enrichVars, wfVars, callVars>>

WfSnapCountFrame ==
    /\ wf_pc = "snapshot"
    /\ op = "create_city_comparison" /\ op_pc = "fetch"
    /\ make_request_frame(SnapCountBodies, {EmptyBody})
    /\ UNCHANGED <<opVars, listVars, laterVars>>

WfSnapCountReturned ==
    /\ wf_pc = "snapshot"
    /\ AfterCityCount
    /\ UNCHANGED <<listVars, enrichVars, wfVars, callVars>>

WfAfterSnapshot ==
    /\ AfterCityComparison
    /\ UNCHANGED <<listVars, enrichVars, callVars>>

WfListCountFrame ==
    /\ wf_pc = "city"
    /\ op = "scrape_all_jobs" /\ op_pc = "count"
    /\ make_request_frame(WorkflowCountBodies, {EmptyBody})
    /\ UNCHANGED <<opVars, listVars, laterVars>>

WfPageFrame ==
    /\ wf_pc = "city"
    /\ op = "scrape_all_jobs" /\ op_pc \in {"first", "page"}
    /\ make_request_frame(WorkflowPages, {EmptyBody})
    /\ UNCHANGED <<opVars, listVars, laterVars>>

WfJobDetailsFrame ==
    /\ wf_pc = "city"
    /\ op = "scrape_all_job_details" /\ op_pc = "fetch"
    /\ make_request_frame(WorkflowDetailBodies, {EmptyBody})
    /\ UNCHANGED <<opVars, listVars, laterVars>>

WfCompanyDetailsFrame ==
    /\ wf_pc = "city"
    /\ op = "scrape_all_company_details" /\ op_pc = "fetch"
    /\ make_request_frame(WorkflowCompanyBodies, {EmptyBody})
    /\ UNCHANGED <<opVars, listVars, laterVars>>

NextWorkflow ==
    \/ RunCompleteWorkflow \/ WfNextTitle
    \/ WfSnapNextCity \/ WfSnapCountFrame \/ WfSnapCountReturned \/ WfAfterSnapshot
    \/ WorkflowNextCity \/ WfListCountFrame \/ AfterCount
    \/ WfPageFrame \/ AfterFirstPage \/ AfterPage
    \/ AfterCityStage \/ CityStageRaised
    \/ JobDetailsNextRow \/ WfJobDetailsFrame \/ JobDetailsReturned
    \/ CompanyDetailsNextRow \/ WfCompanyDetailsFrame \/ CompanyDetailsReturned

SpecWorkflow == InitWorkflow /\ [][NextWorkflow]_vars

\* every step is one of a single sequential thread, which runs on while it
\* has a step to take
SpecWorkflowFair == SpecWorkflow /\ WF_vars(NextWorkflow)

----------------------------------------------------------------------------
(* Specification of the JobPosting methods, each called on a record *)

\* the fields is_empty looks at, and the other twelve
EssentialFields == {"title", "company", "location", "date_posted", "job_link", "description"}
OtherFields == Fields \ EssentialFields

\* the most of the other twelve fields a record holds, unless it holds all
MaxOtherFields == 1

\* the records of texts: every choice of None, the empty text or a text
\* for the six essential fields, with few or all of the other fields given
TextRecords ==
    {[f \in Fields |-> IF f \in EssentialFields THEN essential[f]
                       ELSE IF f \in given THEN Some("a " \o f) ELSE None] :
        essential \in [EssentialFields -> {None, Some(""), Some("a text")}],
        given \in {g \in SUBSET OtherFields : Cardinality(g) <= MaxOtherFields}
                  \cup {OtherFields}}

\* the numbers a field is given: an int, a float, NaN (what the cell of a
\* loaded listing holds when it is empty)
Numbers == {IntValue(2010), FloatValue(2010), NaN}

\* the records with a number: one field a number, the others all the int
\* 7, or all None, or a title and None
NumberRecords ==
    {[f \in Fields |-> IF f = g THEN v ELSE rest[f]] :
        g \in Fields, v \in Numbers,
        rest \in {[f \in Fields |-> IntValue(7)],
                  [f \in Fields |-> None],
                  [f \in Fields |-> IF f = "title" THEN Some("a text") ELSE None]}}

\* the records the methods are called on
Records == TextRecords \cup NumberRecords

\* from_dict(data): cls(**data)
from_dict(data) == JobPostingKw(data)

InitRecord ==
    /\ max_retries = DefaultMaxRetries
    /\ base_delay = DefaultBaseDelay
    /\ rate_limit_delay = DefaultRateLimitDelay
    /\ IdleClient /\ IdleOp /\ IdleList /\ IdleEnrich /\ IdleSnap /\ IdleWorkflow /\ IdleCall

\* job.is_empty()
CallIsEmpty ==
    /\ fn = <<>>
    /\ \E job \in Records :
          /\ fn' = <<"is_empty">>
          /\ fn_arg' = job
          /\ fn_ret' = is_empty(job)
    /\ UNCHANGED <<clientVars, opVars, listVars, enrichVars, snapVars, wfVars>>

\* job.to_dict()
CallToDict ==
    /\ fn = <<>>
    /\ \E job \in Records :
          /\ fn' = <<"to_dict">>
          /\ fn_arg' = job
          /\ fn_ret' = to_dict(job)
    /\ UNCHANGED <<clientVars, opVars, listVars, enrichVars, snapVars, wfVars>>

\* JobPosting.from_dict(d) of the dictionary to_dict returned
CallFromDict ==
    /\ fn = <<"to_dict">>
    /\ fn' = <<"to_dict", "from_dict">>
    /\ fn_ret' = from_dict(fn_ret)
    /\ UNCHANGED <<clientVars, opVars, listVars, enrichVars, snapVars, wfVars, fn_arg>>

\* job.to_df()
CallToDf ==
    /\ fn = <<>>
    /\ \E job \in Records :
          /\ fn' = <<"to_df">>
          /\ fn_arg' = job
          /\ fn_ret' = to_df(job)
    /\ UNCHANGED <<clientVars, opVars, listVars, enrichVars, snapVars, wfVars>>

\* JobPosting.from_df(df) of the DataFrame to_df returned, index=0
CallFromDf ==
    /\ fn = <<"to_df">>
    /\ fn' = <<"to_df", "from_df">>
    /\ fn_ret' = from_df(fn_ret, 0)
    /\ UNCHANGED <<clientVars, opVars, listVars, enrichVars, snapVars, wfVars, fn_arg>>

NextRecord == CallIsEmpty \/ CallToDict \/ CallFromDict \/ CallToDf \/ CallFromDf

SpecRecord == InitRecord /\ [][NextRecord]_vars

----------------------------------------------------------------------------
(* find_latest_jobs_cities (dashboard/dashboard_functions.py)               *)

\* lines 11-16
JOB_DATE_OPTIONS ==
    [o \in {"Last 24h", "Last Week", "Last Month", "Total"} |->
        CASE o = "Last 24h" -> "24h_Jobs"
          [] o = "Last Week" -> "Week_Jobs"
          [] o = "Last Month" -> "Month_Jobs"
          [] o = "Total" -> "Total_Jobs"]

ViewColumns == {"Date", "City", "Total_Jobs"}

\* lines 80-81: df[['Date', 'City', column_name]] with the column renamed
\* to Total_Jobs
select_renamed(df, column_name) ==
    [i \in 1..Len(df) |->
        [c \in ViewColumns |-> IF c = "Total_Jobs" THEN df[i][column_name] ELSE df[i][c]]]

reversed(s) == [i \in 1..Len(s) |-> s[Len(s) + 1 - i]]

\* line 83: sort_values(by='Date', ascending=False): pandas sorts the
\* reversed column and reverses the result, so rows of one date keep
\* their order
sort_values_descending(df) == reversed(sort_values(reversed(df)))

\* the group keys of groupby('City') come in the order of the city names
SortedCityNames == <<"Calgary", "Edmonton", "Montreal", "Ottawa", "Toronto", "Vancouver">>

city_group(df, city) == SelectSeq(df, LAMBDA row : row["City"] = Some(city))

RECURSIVE sorted_groups(_, _)
sorted_groups(df, k) ==
    IF k = 0 THEN <<>>
    ELSE sorted_groups(df, k - 1) \o sort_values(city_group(df, SortedCityNames[k]))

\* line 84: groupby('City').apply(sort_values by Date).reset_index(drop=True):
\* the groups one after the other, each ascending by Date; pandas before
\* 2.0 (group_keys not applied to an apply that leaves the order of every
\* group as it is) returns the frame in its own order when no group was
\* reordered
groupby_apply_sort(df, group_keys) ==
    IF group_keys
       \/ \E k \in 1..Len(SortedCityNames) :
             sort_values(city_group(df, SortedCityNames[k]))
                 # city_group(df, SortedCityNames[k])
    THEN sorted_groups(df, Len(SortedCityNames))
    ELSE df

\* a - b of two cells of a numeric column
cell_minus(a, b) == IF isna(a) \/ isna(b) THEN NaN ELSE Some(a[1] - b[1])

\* mutant of the delta: the difference to the row before, whatever its city
frame_diff(df) ==
    [i \in 1..Len(df) |->
        IF i = 1 THEN NaN ELSE cell_minus(df[i]["Total_Jobs"], df[i - 1]["Total_Jobs"])]

\* line 87: groupby('City')['Total_Jobs'].diff(): the difference to the
\* row before of the same city, NaN on the first row of a city
group_diff(df) ==
    [i \in 1..Len(df) |->
        LET before == {j \in 1..(i - 1) : df[j]["City"] = df[i]["City"]}
        IN  IF before = {} THEN NaN
            ELSE LET j == CHOOSE j \in before : \A m \in before : m <= j
                 IN  cell_minus(df[i]["Total_Jobs"], df[j]["Total_Jobs"])]

\* lines 90-91: fillna(0).astype(int)
fillna_zero(x) == IF isna(x) THEN Some(0) ELSE x

\* lines 83-91: the table with its delta column
with_delta(df, group_keys) ==
    LET grouped == groupby_apply_sort(sort_values_descending(df), group_keys)
        delta == group_diff(grouped)
    IN  [i \in 1..Len(grouped) |->
            [c \in ViewColumns \cup {"delta"} |->
                CASE c = "delta" -> fillna_zero(delta[i])
                  [] c = "Total_Jobs" -> fillna_zero(grouped[i][c])
                  [] OTHER -> grouped[i][c]]]

\* mutant of the latest date: the date of the last row of the table
date_last(df) == IF df = <<>> THEN NaN ELSE df[Len(df)]["Date"]

\* line 94: df['Date'].max(), the largest of the date texts
date_max(df) ==
    IF df = <<>> THEN NaN
    ELSE df[CHOOSE i \in 1..Len(df) :
                \A j \in 1..Len(df) : text_le(df[j]["Date"][1], df[i]["Date"][1])]["Date"]

\* line 94: the rows of the largest date
latest_rows(df) ==
    LET latest == date_max(df)
    IN  SelectSeq(df, LAMBDA row : row["Date"] = latest)

\* find_latest_jobs_cities(job_search, job_date, data_dir) on the series
\* file of the job search, lines 67-96
find_latest_jobs_cities(file, job_date, group_keys) ==
    IF ~file.exists
    THEN [raised |-> "FileNotFoundError", df |-> <<>>]
    ELSE IF ~file.readable
    THEN [raised |-> "read_csv", df |-> <<>>]
    ELSE IF job_date \notin DOMAIN JOB_DATE_OPTIONS
    THEN [raised |-> "ValueError", df |-> <<>>]
    ELSE [raised |-> "",
          df |-> latest_rows(with_delta(select_renamed(series_read_csv(file.rows),
                                                       JOB_DATE_OPTIONS[job_date]),
                                        group_keys))]

----------------------------------------------------------------------------
(* Specification of find_latest_jobs_cities on a written series file *)

\* most rows of the series file
MaxSeriesRows == 3

\* the job_date arguments: the four options and a text that is none
JobDateArgs == DOMAIN JOB_DATE_OPTIONS \cup {"Yesterday"}

\* the rows create_city_comparison has written: two cities, two days, the
\* counts (Total, Month, Week, 24h) of three count views
DashboardRows ==
    {series_row(city, <<Some(c[1]), Some(c[2]), Some(c[3]), Some(c[4])>>, date) :
        city \in {"Ottawa", "Toronto"},
        c \in {<<100, 60, 20, 5>>, <<130, 70, 25, 0>>, <<40, 30, 10, 2>>},
        date \in {<<2024, 5, 1>>, <<2024, 5, 2>>}}

\* the series files: none, one pd.read_csv cannot load, and the written
\* ones, which lines 94-95 of the orchestrator leave ascending by Date
DashboardFiles ==
    {NoFile, [exists |-> TRUE, readable |-> FALSE, rows |-> <<>>]}
    \cup {[exists |-> TRUE, readable |-> TRUE, rows |-> series_to_csv(df)] :
            df \in {d \in UNION {[1..n -> DashboardRows] : n \in 1..MaxSeriesRows} :
                       sort_values(d) = d}}

InitDashboard ==
    /\ max_retries = DefaultMaxRetries
    /\ base_delay = DefaultBaseDelay
    /\ rate_limit_delay = DefaultRateLimitDelay
    /\ IdleClient /\ IdleOp /\ IdleList /\ IdleEnrich /\ IdleWorkflow /\ IdleCall
    /\ series_file \in DashboardFiles
    /\ today = <<>>
    /\ cc_title = "" /\ cc_cities = <<>> /\ cc_data = <<>> /\ cc_ret = <<>>
    /\ cc_before = NoFile /\ cc_runs = 0

CallFindLatestJobsCities ==
    /\ fn = <<>>
    /\ \E job_date \in JobDateArgs, group_keys \in BOOLEAN :
          /\ fn' = <<"find_latest_jobs_cities">>
          /\ fn_arg' = job_date
          /\ fn_ret' = find_latest_jobs_cities(series_file, job_date, group_keys)
    /\ UNCHANGED <<clientVars, opVars, listVars, enrichVars, snapVars, wfVars>>

NextDashboard == CallFindLatestJobsCities

SpecDashboard == InitDashboard /\ [][NextDashboard]_vars

----------------------------------------------------------------------------
(* Properties of the request client (SpecReq) *)

\* the step is one frame of make_request: one more HTTP attempt was issued
FrameStep == rq_http' = rq_http + 1
LastOutcome == rq_last[1].outcome
LastIs200 == rq_last # <<>> /\ LastOutcome.kind = "response" /\ LastOutcome.status = 200
LastIsNon200 == rq_last # <<>> /\ LastOutcome.kind = "response" /\ LastOutcome.status # 200
LastIsException == rq_last # <<>> /\ LastOutcome.kind = "exception"

\* C1: whenever an HTTP attempt, at any trial, ends in a response of status
\* 200, make_request returns that very response (the one of this attempt,
\* with its body) and the attempt performs no sleep.
C1_Status200ReturnedNoSleep ==
    [][(FrameStep /\ LastIs200')
        => /\ rq_pc' = "returned"
           /\ rq_ret' = Some([status |-> 200, body |-> LastOutcome'.body, attempt |-> rq_http'])
           /\ rq_nsleeps' = rq_nsleeps
           /\ rq_last'[1].sleeps = <<>>]_vars

C1_Witness ==
    /\ rq_pc = "returned" /\ LastIs200 /\ rq_ret # None
    /\ rq_trial = 3 /\ rq_start = 1 /\ rq_http = 3

\* C2: a response of status other than 200 received at trial = max_retries
\* makes make_request return None (not the response), with no sleep and no
\* further HTTP attempt.
C2_ExhaustedReturnsNone ==
    [][/\ (FrameStep /\ LastIsNon200' /\ rq_trial = max_retries)
            => /\ rq_pc' = "returned"
               /\ rq_ret' = None
               /\ rq_nsleeps' = rq_nsleeps
               /\ rq_last'[1].sleeps = <<>>
       /\ (rq_pc = "returned") => (rq_http' = rq_http /\ rq_nsleeps' = rq_nsleeps)]_vars

C2_Witness ==
    /\ rq_pc = "returned" /\ LastIsNon200 /\ rq_ret = None
    /\ rq_last[1].trial = max_retries /\ max_retries = DefaultMaxRetries
    /\ rq_start = 0 /\ LastOutcome.status = 429

\* C3: a response of status other than 200 at trial t, 0 < t < max_retries,
\* makes the client sleep once, for rate_limit_delay * t when the status is
\* 429 and for base_delay * t otherwise, and then go on to the attempt of
\* trial t + 1.
C3_LinearBackoff ==
    [][(FrameStep /\ LastIsNon200' /\ 0 < rq_trial /\ rq_trial < max_retries)
        => /\ rq_last'[1].sleeps =
                <<IF LastOutcome'.status = 429
                  THEN rate_limit_delay * rq_trial
                  ELSE base_delay * rq_trial>>
           /\ rq_nsleeps' = rq_nsleeps + 1
           /\ rq_pc' = "attempt"
           /\ rq_trial' = rq_trial + 1
           /\ rq_ret' = None]_vars

C3_Witness ==
    /\ rq_pc = "attempt" /\ LastIsNon200 /\ LastOutcome.status = 429
    /\ rq_last[1].trial = 2 /\ rq_last[1].sleeps = <<2 * DefaultRateLimitDelay>>
    /\ base_delay = DefaultBaseDelay /\ rq_trial = 3

\* C4: in a call entered at trial 0, when the attempt at trial k <=
\* max_retries receives status 200 after k failed attempts (non-200
\* statuses or exceptions), make_request returns that response: the value
\* returned is the status-200 response with its body, as for a success at
\* the first attempt.
C4_EventualSuccessReturned ==
    (rq_start = 0 /\ LastIs200 /\ rq_last[1].trial <= max_retries)
        => /\ rq_pc = "returned"
           /\ rq_ret # None
           /\ rq_ret[1].status = 200
           /\ rq_ret[1].body = LastOutcome.body
           /\ rq_ret[1].attempt = rq_last[1].trial + 1
           /\ rq_http = rq_last[1].trial + 1

C4_Witness ==
    /\ rq_start = 0 /\ LastIs200 /\ rq_pc = "returned"
    /\ rq_last[1].trial = max_retries /\ max_retries = 4
    /\ rq_ret # None /\ rq_ret[1].body # EmptyBody /\ rq_nsleeps = 4

\* C5: a network exception at trial t is handled under the trial budget of
\* the non-200 statuses: for t < max_retries the client sleeps base_delay * t
\* and retries at trial t + 1, for t >= max_retries it returns None; and
\* every failed attempt, of either kind, advances the one trial counter.
C5_ExceptionSameBudget ==
    /\ [][(FrameStep /\ LastIsException')
            => IF rq_trial < max_retries
               THEN /\ rq_last'[1].sleeps = <<base_delay * rq_trial>>
                    /\ rq_nsleeps' = rq_nsleeps + 1
                    /\ rq_pc' = "attempt"
                    /\ rq_trial' = rq_trial + 1
               ELSE /\ rq_last'[1].sleeps = <<>>
                    /\ rq_nsleeps' = rq_nsleeps
                    /\ rq_pc' = "returned"
                    /\ rq_ret' = None]_vars
    /\ [](rq_pc = "attempt" => rq_trial = rq_start + rq_http)
    /\ [](rq_pc = "returned" => rq_trial = rq_start + rq_http - 1)

C5_Witness ==
    /\ rq_pc = "attempt" /\ LastIsException
    /\ rq_last[1].trial = 3 /\ rq_last[1].sleeps = <<3>>
    /\ base_delay = 1 /\ rate_limit_delay = DefaultRateLimitDelay
    /\ rq_start = 0 /\ rq_nsleeps = 4 /\ rq_trial = 4
----------------------------------------------------------------------------
(* Properties of scrape_all_jobs (SpecList) *)

\* the positions of the get_job_list calls made so far, read off the urls
\* requested (no start parameter: the first page, position 0)
PageCalls == SelectSeq(fetch_log, LAMBDA e : e.by = "get_job_list")
RequestedOffsets ==
    [i \in 1..Len(PageCalls) |->
        IF PageCalls[i].url.start = None THEN 0 ELSE PageCalls[i].url.start[1]]

\* 0, then 60, 70, 80, ... for every such offset strictly below lim
ExpectedOffsets(lim) ==
    LET n == Cardinality({o \in FirstContinuation..(lim - 1) : (o - FirstContinuation) % PageStep = 0})
    IN  <<0>> \o [k \in 1..n |-> FirstContinuation + PageStep * (k - 1)]

IsPrefix(a, b) == Len(a) <= Len(b) /\ \A i \in 1..Len(a) : a[i] = b[i]

\* a page that is empty or whose titles are all absent
IsExhaustedPage(df) == \A i \in 1..Len(df) : df[i]["title"] = None

CountSucceeded == total_jobs # <<>> /\ total_jobs[1] # None
Total == total_jobs[1][1]
Limit == op_args[3]
EffectiveLimit == IF Total <= Limit THEN Total ELSE Limit
ScrapeDone == op = "scrape_all_jobs" /\ op_pc = "done"

\* every page fetched had a row, the continuation pages a title
AllPagesNonEmpty ==
    /\ \A i \in 1..Len(page_log) : page_log[i].df # <<>>
    /\ \A i \in 2..Len(page_log) : ~IsExhaustedPage(page_log[i].df)

\* C6: with total T and limit L, scrape_all_jobs requests the page offsets
\* 0, 60, 70, ... below min(T, L) in this order, each once: at any moment
\* the offsets requested are a prefix of that list, and when every page
\* fetched was non-empty the run ends with exactly that list; for T = 75
\* and L = 100 these are the 3 fetches at 0, 60, 70.
C6_PageOffsets ==
    (op = "scrape_all_jobs" /\ CountSucceeded)
        => /\ IsPrefix(RequestedOffsets, ExpectedOffsets(EffectiveLimit))
           /\ (ScrapeDone /\ AllPagesNonEmpty)
                => RequestedOffsets = ExpectedOffsets(EffectiveLimit)
           /\ (ScrapeDone /\ AllPagesNonEmpty /\ Total = 75 /\ Limit = 100)
                => (RequestedOffsets = <<0, 60, 70>> /\ Len(page_log) = 3)

C6_Witness ==
    /\ ScrapeDone /\ CountSucceeded /\ AllPagesNonEmpty
    /\ Total = 75 /\ Limit = 100
    /\ RequestedOffsets = <<0, 60, 70>>
    /\ Len(sa_ret[1].df[1]) = 4

RECURSIVE FlattenPages(_, _)
FlattenPages(log, n) ==
    IF n = 0 THEN <<>> ELSE FlattenPages(log, n - 1) \o log[n].df

\* C7: the first continuation page that is empty or has no title ends the
\* run: it is the last page requested, and the table returned (and saved)
\* holds exactly the rows of the pages before it, in page order, whether or
\* not the effective limit was reached.
C7_StopsAtExhaustedPage ==
    \A i \in 2..Len(page_log) :
        IsExhaustedPage(page_log[i].df)
            => /\ i = Len(page_log)
               /\ ScrapeDone
               /\ Len(PageCalls) = i
               /\ RequestedOffsets[i] = page_log[i].position
               /\ sa_ret # <<>>
               /\ sa_ret[1].df = Some(FlattenPages(page_log, i - 1))
               /\ jobs_df = FlattenPages(page_log, i - 1)

C7_Witness ==
    /\ ScrapeDone /\ CountSucceeded /\ Len(page_log) = 3
    /\ page_log[3].position = 70 /\ page_log[3].df = SentinelDf
    /\ actual_limit = 100
    /\ RequestedOffsets = <<0, 60, 70>>
    /\ Len(sa_ret[1].df[1]) = 3

NoneReturned == Some([df |-> None, path |-> None])

\* C8: when the count fetch of scrape_all_jobs fails (the client returns
\* None), scrape_all_jobs returns (None, None) at once: no page is
\* requested, no listing file is written, and nothing happens afterwards.
C8_AbortOnCountFailure ==
    [][/\ (op = "scrape_all_jobs" /\ op_pc = "count" /\ rq_pc = "returned"
           /\ rq_ret = None /\ op_pc' # "count")
            => /\ total_jobs' = AllNone
               /\ sa_ret' = NoneReturned
               /\ op_pc' = "done"
               /\ fetch_log' = fetch_log /\ Len(fetch_log) = 1
               /\ PageCalls' = <<>>
               /\ csv_file' = None
               /\ rq_http' = rq_http
       /\ ScrapeDone => UNCHANGED <<fetch_log, csv_file, sa_ret, rq_http>>]_vars

C8_Witness ==
    /\ ScrapeDone /\ total_jobs = AllNone /\ sa_ret = NoneReturned
    /\ rq_ret = None /\ rq_http = DefaultMaxRetries + 1
    /\ PageCalls = <<>> /\ csv_file = None /\ page_log = <<>>

----------------------------------------------------------------------------
(* Properties of get_total_jobs and get_job_list (SpecFetch) *)

\* C9: get_total_jobs makes one client call; it returns the all-absent
\* 4-list exactly when the client returned None, and whenever the client
\* returned a response each of the four values is a non-negative integer.
C9_CountSentinelIffFailure ==
    (op = "get_total_jobs")
        => /\ Len(fetch_log) = 1
           /\ (op_pc = "done")
                => /\ counts_ret # <<>>
                   /\ Len(counts_ret[1]) = 4
                   /\ (counts_ret[1] = AllNone) <=> (rq_ret = None)
                   /\ (rq_ret # None)
                        => \A i \in 1..4 : /\ counts_ret[1][i] # None
                                           /\ counts_ret[1][i][1] \in Nat

C9_Witness ==
    /\ op = "get_total_jobs" /\ op_pc = "done"
    /\ rq_ret # None /\ rq_trial = 2
    /\ rq_ret[1].body.labels = <<Some(<<"7", "x", "5">>), Some(<<"x">>), None, Some(<<"5", "x", "7">>)>>
    /\ counts_ret = Some(<<Some(5), Some(0), Some(0), Some(7)>>)

\* C10: get_job_list returns a DataFrame of exactly one row, for which
\* is_empty holds, whenever the client returned None or the response holds
\* no job card; it never returns an empty DataFrame then, and the call
\* never ends in an exception.
C10_PageSentinel ==
    (op = "get_job_list")
        => /\ rq_pc # "raised"
           /\ (op_pc = "done" /\ (rq_ret = None \/ rq_ret[1].body.job_postings = <<>>))
                => /\ list_ret # <<>>
                   /\ Len(list_ret[1]) = 1
                   /\ is_empty(from_df(list_ret[1], 0))

C10_Witness ==
    /\ op = "get_job_list" /\ op_pc = "done" /\ op_args[3] = FirstContinuation
    /\ rq_ret = None /\ rq_http = DefaultMaxRetries + 1
    /\ list_ret # <<>> /\ Len(list_ret[1]) = 1 /\ is_empty(from_df(list_ret[1], 0))

----------------------------------------------------------------------------
(* Properties of the enrichment stages (SpecEnrich) *)

Stages == {"scrape_all_job_details", "scrape_all_company_details"}

\* a cell of a loaded table that holds no value
Absent(x) == x \in {None, NaN}

\* the urls the running stage has handed to its fetcher, in call order
StageFetches ==
    LET calls == SelectSeq(fetch_log, LAMBDA e : e.by = fetcher(op))
    IN  [k \in 1..Len(calls) |-> calls[k].url]

\* the links of the rows the loop has taken so far, in row order
LinksTaken ==
    LET rows == SelectSeq(SubSeq(st_df, 1, st_i),
                          LAMBDA row : ~Absent(row[link_field(op)]))
    IN  [k \in 1..Len(rows) |-> rows[k][link_field(op)][1]]

\* C11: in each enrichment stage the fetch calls made are exactly the links
\* of the rows taken so far that have a link, once each and in row order;
\* every request of the client is for the link of the row at hand; when the
\* stage has returned every row has been taken, so the number of fetch calls
\* is the number of rows with a link.
C11_OneFetchPerLink ==
    op \in Stages =>
        /\ StageFetches = LinksTaken
        /\ \A k \in 1..Len(fetch_log) :
              fetch_log[k].by \in {"get_job_details", "get_company_details"}
        /\ op_pc = "fetch" =>
              /\ ~Absent(st_df[st_i][link_field(op)])
              /\ rq_url = st_df[st_i][link_field(op)][1]
        /\ op_pc = "done" => st_i = Len(st_df)

C11_Witness ==
    /\ op = "scrape_all_company_details" /\ op_pc = "done"
    /\ Len(st_df) >= 2
    /\ Len(StageFetches) = 1
    /\ \E i \in 1..Len(st_df) : Absent(st_df[i]["company_url"])

\* a successful response of the stage in which the parser finds nothing
NothingExtractable(stage, body) ==
    IF stage = "scrape_all_job_details"
    THEN \A c \in DetailColumns : parse_details(body)[c] = None
    ELSE DOMAIN parse_company(body)[1] = {}

\* C12: in both stages a row whose fetch failed, or whose response yields
\* no extractable field, is not appended to the output.
C12_FailedOrEmptyDropped ==
    op \in Stages =>
        \A k \in 1..Len(st_log) :
            (/\ st_log[k].fetched
             /\ \/ st_log[k].body = None
                \/ NothingExtractable(op, st_log[k].body[1]))
            => ~st_log[k].kept

\* the rows taken so far that were appended to the output, in row order
KeptRows ==
    LET kept == SelectSeq(st_log, LAMBDA e : e.kept)
    IN  [k \in 1..Len(kept) |-> kept[k].row]

\* C13: a stage that has loaded its table never raises; every row taken is
\* accounted for; every row with a link whose fetch succeeded with
\* extractable data is in the output; the output holds the kept rows in
\* input order; a returned stage has taken every row and has returned and
\* written its output.
C13_FailureDoesNotFailBatch ==
    (op \in Stages /\ (op_pc # "raised" \/ st_i > 0)) =>
        /\ op_pc \in {"loop", "fetch", "done"}
        /\ Len(st_log) = IF op_pc = "fetch" THEN st_i - 1 ELSE st_i
        /\ \A k \in 1..Len(st_log) :
              /\ st_log[k].row = k
              /\ (/\ st_log[k].fetched
                  /\ st_log[k].body # None
                  /\ ~NothingExtractable(op, st_log[k].body[1]))
                 => st_log[k].kept
        /\ Len(st_out) = Len(KeptRows)
        /\ \A k \in 1..Len(st_out) :
              /\ st_out[k]["title"] = st_df[KeptRows[k]]["title"]
              /\ st_out[k]["job_link"] = st_df[KeptRows[k]]["job_link"]
              /\ k > 1 => KeptRows[k - 1] < KeptRows[k]
        /\ op_pc = "done" =>
              /\ st_i = Len(st_df)
              /\ st_ret = Some(st_out)
              /\ csv_file = Some(to_csv(st_out))

C13_Witness ==
    /\ op = "scrape_all_job_details" /\ op_pc = "done"
    /\ Len(st_df) >= 2
    /\ st_log[1].fetched /\ st_log[1].body = None
    /\ st_log[2].fetched /\ st_log[2].kept
    /\ Len(st_out) = 1

\* the fields a stage sets from the page it fetched
OwnFields(stage) ==
    IF stage = "scrape_all_job_details" THEN DetailFields ELSE CompanyFields

\* C14: on every row a stage keeps, every field that is not one of the
\* stage's own has the value it had on the loaded row, a field without a
\* value staying without one.
C14_EarlierFieldsKept ==
    (op \in Stages /\ Len(st_out) = Len(KeptRows)) =>
        \A k \in 1..Len(st_out) : \A f \in Fields \ OwnFields(op) :
            LET before == st_df[KeptRows[k]][f]
                after == st_out[k][f]
            IN  IF Absent(before) THEN Absent(after) ELSE after = before

C14_Witness ==
    /\ op = "scrape_all_job_details" /\ op_pc = "done"
    /\ Len(st_out) >= 1
    /\ st_log[KeptRows[1]].body # None
    /\ st_log[KeptRows[1]].body[1].sub_nav_location = Some("Toronto, ON")
    /\ st_out[1]["location"] = Some("Ottawa, ON")
    /\ st_out[1]["description"] = Some("Build APIs")
    /\ st_out[1]["time_posted"] = Some("10:05 AM")

\* C18: no stage raises: scrape_all_job_details and
\* scrape_all_company_details always return to their caller.
C18_StagesNeverRaise == op_pc # "raised"

----------------------------------------------------------------------------
(* Properties of create_city_comparison (SpecSnap) *)

InComparison == op = "create_city_comparison" /\ op_pc # "raised"

\* C16: a call in which the counts of a city came back as the sentinel
\* returns None, and only such a call does; the series file of a call that
\* returned None, and of a call still running, is the file the call found.
C16_AllOrNothing ==
    InComparison =>
        /\ \A k \in 1..Len(cc_data) : cc_data[k] # AllNone
        /\ op_pc = "done" => (cc_ret = Some(None) <=> counts_ret = Some(AllNone))
        /\ op_pc # "done" => (series_file = cc_before /\ cc_ret = <<>>)
        /\ cc_ret = Some(None) => series_file = cc_before

C16_Witness ==
    /\ InComparison /\ op_pc = "done"
    /\ cc_ret = Some(None)
    /\ Len(cc_data) = 1 /\ Len(cc_cities) = 2
    /\ cc_before.exists /\ cc_before.readable /\ Len(cc_before.rows) = 3
    /\ series_file = cc_before

\* how often a row occurs in a table
Occurrences(rows, row) == Cardinality({i \in 1..Len(rows) : rows[i] = row})

\* the rows a finished call has added for its cities
NewRows ==
    series_to_csv([k \in 1..Len(cc_cities) |-> series_row(cc_cities[k], cc_data[k], today)])

\* C17: after a call that returned a table, the series file holds every row
\* of the file the call found and one new row per city with the date of
\* the call, each as often as before plus as often as added, and its rows
\* are in ascending order of Date.
C17_SeriesAccumulates ==
    (InComparison /\ op_pc = "done" /\ cc_ret # Some(None)) =>
        /\ series_file.exists /\ series_file.readable
        /\ Len(series_file.rows) = Len(cc_before.rows) + Len(cc_cities)
        /\ \A row \in {series_file.rows[i] : i \in 1..Len(series_file.rows)}
                 \cup {cc_before.rows[i] : i \in 1..Len(cc_before.rows)} :
              Occurrences(series_file.rows, row)
                  = Occurrences(cc_before.rows, row) + Occurrences(NewRows, row)
        /\ \A i \in 1..(Len(series_file.rows) - 1) :
              text_le(series_file.rows[i]["Date"][1], series_file.rows[i + 1]["Date"][1])

----------------------------------------------------------------------------
(* Properties of the workflow (SpecWorkflow, SpecWorkflowFair) *)

\* the phase a fetch belongs to
Phase(by) ==
    CASE by = "get_total_jobs" -> 1
      [] by = "get_job_list" -> 2
      [] by = "get_job_details" -> 3
      [] by = "get_company_details" -> 4

\* the offset a page url asks for
Offset(url) == IF url.start = None THEN 0 ELSE url.start[1]

\* what holds of a step within a city's run that starts a fetch
FetchInOrder ==
    LET last == fetch_log[Len(fetch_log)]
        new == fetch_log'[Len(fetch_log')]
    IN  /\ fetch_log' = Append(fetch_log, new)
        /\ rq_pc = "returned"
        /\ rq_pc' = "attempt"
        /\ Phase(new.by) > 1
        /\ Phase(new.by) >= Phase(last.by)
        /\ new.by = "get_job_list" =>
              IF last.by = "get_total_jobs"
              THEN Offset(new.url) = 0
              ELSE Offset(new.url) > Offset(last.url)
        /\ Phase(new.by) >= 3 =>
              /\ st_i' > st_i
              /\ new.url = st_df'[st_i'][link_field(op')][1]

\* C15: a city's run starts with its count fetch, made while no request is
\* in flight; every later fetch of the run is started when the one before
\* has returned, is a page, detail or company fetch, never of an earlier
\* phase than the one before, a page fetch of a larger offset than the
\* page fetch before (0 for the first), a detail or company fetch for the
\* link of a later row than the fetch before.
C15_PhasesInOrder ==
    [][/\ (wf_pc = "cities" /\ wf_pc' = "city") =>
              /\ Len(fetch_log') = 1
              /\ fetch_log'[1].by = "get_total_jobs"
              /\ rq_pc # "attempt" /\ rq_pc' = "attempt"
       /\ (wf_pc = "city" /\ fetch_log' # fetch_log) => FetchInOrder]_vars

C15_Witness ==
    /\ wf_pc = "city" /\ op = "scrape_all_company_details"
    /\ fetch_log[1].by = "get_total_jobs"
    /\ Len(SelectSeq(fetch_log, LAMBDA e : e.by = "get_job_list")) = 2
    /\ Len(SelectSeq(fetch_log, LAMBDA e : e.by = "get_job_details")) = 2
    /\ Len(SelectSeq(fetch_log, LAMBDA e : e.by = "get_company_details")) = 2

\* what a finished run has visited, given how the snapshot of each title
\* ended: the title, its snapshot, and after a table every city
RECURSIVE ExpectedVisits(_, _, _)
ExpectedVisits(titles, snapshots, cities) ==
    IF titles = <<>> \/ snapshots = <<>> THEN <<>>
    ELSE <<[kind |-> "title", name |-> Head(titles)], Head(snapshots)>>
         \o (IF Head(snapshots).name = "table"
             THEN [k \in 1..Len(cities[1]) |-> [kind |-> "city", name |-> cities[1][k]]]
             ELSE <<>>)
         \o ExpectedVisits(Tail(titles), Tail(snapshots), cities)

\* a run_complete_workflow call has come to its end: it has visited every
\* title in order and, after every snapshot that returned a table, every
\* city in order
Completed ==
    /\ wf_pc = "done"
    /\ LET snapshots == SelectSeq(wf_visited, LAMBDA e : e.kind = "snapshot")
       IN  /\ Len(snapshots) = Len(wf_titles[1])
           /\ wf_visited = ExpectedVisits(wf_titles[1], snapshots, wf_cities)

\* C19: every run_complete_workflow call comes to its end without raising,
\* whatever its fetches return and whichever of its city stages raise; at
\* its end it has visited every title in order, and after every snapshot
\* that returned a table every city in order.
C19_RunsToCompletion == <>Completed

\* C20: every request of a run is made through the RequestHandler instance
\* the request before was made through.
C20_OneClient == [][rq_client # None => rq_client' = rq_client]_vars

----------------------------------------------------------------------------
(* Properties of the JobPosting methods (SpecRecord) *)

\* C21: is_empty returns True exactly when title, company, location,
\* date_posted, job_link and description are all None, whatever the other
\* twelve fields hold.
C21_EmptyIffEssentialAbsent ==
    fn = <<"is_empty">> =>
        (fn_ret <=> \A f \in EssentialFields : fn_arg[f] = None)

C21_Witness ==
    /\ fn = <<"is_empty">> /\ fn_ret
    /\ \A f \in OtherFields : fn_arg[f] # None

\* two values are equal: the same value, or an int and a float of the
\* same number
SameValue(a, b) == a = b \/ (is_number(a) /\ is_number(b) /\ a[3] = b[3])

\* C22: the record rebuilt by from_dict of to_dict, and by from_df (index
\* 0) of to_df, has the 18 fields, each with a value equal to that of the
\* record the row was made of; a field is None exactly where that record
\* holds None; and a record that holds a text or None somewhere, so every
\* record of texts and absent fields, is rebuilt value for value.
C22_RoundTrip ==
    fn \in {<<"to_dict", "from_dict">>, <<"to_df", "from_df">>} =>
        /\ DOMAIN fn_ret = Fields
        /\ \A f \in Fields : SameValue(fn_ret[f], fn_arg[f])
        /\ \A f \in Fields : fn_ret[f] = None <=> fn_arg[f] = None
        /\ (\E f \in Fields : is_object(fn_arg[f])) => fn_ret = fn_arg

C22_Witness ==
    /\ fn = <<"to_df", "from_df">>
    /\ fn_arg["title"] = Some("a text") /\ fn_arg["company"] = None
    /\ fn_arg["description"] = Some("") /\ fn_arg["founded"] = None
    /\ fn_arg["applicants"] # None
    /\ fn_ret["company"] = None /\ fn_ret["applicants"] # None

----------------------------------------------------------------------------
(* The retry budget of the request client (SpecReq) *)

\* C25: no make_request call issues more than max_retries + 1 HTTP
\* attempts; a call entered at trial 0 whose first attempt fails with
\* retries left sleeps for 0 seconds before its first retry; and such a call
\* that has returned after a failed last attempt has issued exactly
\* max_retries + 1 attempts and slept exactly max_retries times, and
\* returns None.
C25_BoundedRetry ==
    /\ [](rq_http <= max_retries + 1)
    /\ [][(FrameStep /\ rq_start = 0 /\ rq_trial = 0 /\ ~LastIs200' /\ max_retries > 0)
            => /\ rq_last'[1].sleeps = <<0>>
               /\ rq_nsleeps' = 1
               /\ rq_pc' = "attempt"]_vars
    /\ []((rq_pc = "returned" /\ rq_start = 0 /\ ~LastIs200)
            => /\ rq_http = max_retries + 1
               /\ rq_nsleeps = max_retries
               /\ rq_ret = None)

C25_Witness ==
    /\ rq_pc = "returned" /\ rq_start = 0 /\ rq_ret = None
    /\ max_retries = DefaultMaxRetries
    /\ rq_http = DefaultMaxRetries + 1 /\ rq_nsleeps = DefaultMaxRetries
    /\ LastIsException

----------------------------------------------------------------------------
(* scrape_all_jobs after a first page without postings (SpecList) *)

\* the first page came back exhausted or without a job card
FirstPageWithoutPostings ==
    /\ op = "scrape_all_jobs" /\ op_pc = "first" /\ rq_pc = "returned"
    /\ (rq_ret = None \/ rq_ret[1].body.job_postings = <<>>)

\* C26: when the first page comes back exhausted or without a job card,
\* scrape_all_jobs does not return None: jobs_df is the one sentinel row;
\* with positions in range(60, actual_limit, 10) the next step requests
\* offset 60, without any it writes the file and returns the table; and a
\* finished run whose first page gave the sentinel has written the table it
\* returns, whose first row is a record for which is_empty holds.
C26_SentinelFirstPageKept ==
    /\ [][FirstPageWithoutPostings =>
            /\ jobs_df' = SentinelDf
            /\ IF actual_limit > FirstContinuation
               THEN /\ op_pc' = "page" /\ sa_ret' = <<>>
                    /\ fetch_log' = Append(fetch_log,
                          [by |-> "get_job_list",
                           url |-> build_search_url(op_args[1], op_args[2], FirstContinuation)])
               ELSE /\ op_pc' = "done"
                    /\ sa_ret'[1].df = Some(SentinelDf)
                    /\ csv_file' = Some(to_csv(SentinelDf))]_vars
    /\ []((op = "scrape_all_jobs" /\ op_pc = "done" /\ page_log # <<>>
            /\ page_log[1].df = SentinelDf)
            => /\ sa_ret[1].df # None
               /\ is_empty(from_df(sa_ret[1].df[1], 0))
               /\ csv_file = Some(to_csv(sa_ret[1].df[1])))

C26_Witness ==
    /\ op = "scrape_all_jobs" /\ op_pc = "done"
    /\ Len(page_log) = 3 /\ page_log[1].df = SentinelDf
    /\ page_log[2].position = FirstContinuation /\ ~is_empty(from_df(page_log[2].df, 0))
    /\ sa_ret[1].df # None /\ Len(sa_ret[1].df[1]) >= 3
    /\ is_empty(from_df(sa_ret[1].df[1], 0))

----------------------------------------------------------------------------
(* Rows without a link in the enrichment stages (SpecEnrich) *)

\* the column the running stage is to take its link from
LinkColumn == IF op = "scrape_all_job_details" THEN "job_link" ELSE "company_url"

\* the entries of the log of the rows whose fetch was requested
FetchedRows == SelectSeq(st_log, LAMBDA e : e.fetched)

\* the fetches the running stage has requested
OwnFetches ==
    SelectSeq(fetch_log,
              LAMBDA e : e.by = IF op = "scrape_all_job_details"
                                THEN "get_job_details" ELSE "get_company_details")

\* C27: in both stages a row whose link (job_link, respectively
\* company_url) is missing is taken without a fetch and is not appended;
\* the fetches requested are those of the rows with a link; the output
\* holds the kept rows in input order, each with the link of its row; and
\* the file a returned stage has written holds the output, every row of it
\* with a link, so after scrape_all_company_details with a company_url.
C27_RowsWithoutLinkOmitted ==
    (op \in Stages /\ op_pc # "raised") =>
        /\ \A k \in 1..Len(st_log) :
              LET link == st_df[st_log[k].row][LinkColumn]
              IN  IF link \in {None, NaN}
                  THEN ~st_log[k].fetched /\ ~st_log[k].kept
                  ELSE st_log[k].fetched
        /\ Len(OwnFetches) = Len(FetchedRows) + (IF op_pc = "fetch" THEN 1 ELSE 0)
        /\ \A k \in 1..Len(OwnFetches) :
              LET row == IF k <= Len(FetchedRows) THEN FetchedRows[k].row ELSE st_i
              IN  OwnFetches[k].url = st_df[row][LinkColumn][1]
        /\ Len(st_out) = Len(KeptRows)
        /\ \A k \in 1..Len(st_out) :
              /\ k > 1 => KeptRows[k - 1] < KeptRows[k]
              /\ st_out[k][LinkColumn] \notin {None, NaN}
              /\ st_out[k][LinkColumn] = st_df[KeptRows[k]][LinkColumn]
              /\ \A f \in ListingFields :
                    st_out[k][f] = st_df[KeptRows[k]][f]
                    \/ (st_out[k][f] \in {None, NaN} /\ st_df[KeptRows[k]][f] \in {None, NaN})
        /\ op_pc = "done" =>
              /\ csv_file # None /\ Len(csv_file[1]) = Len(st_out)
              /\ \A k \in 1..Len(st_out) :
                    /\ csv_file[1][k][LinkColumn] = st_out[k][LinkColumn][1]
                    /\ csv_file[1][k][LinkColumn] \notin na_values

C27_Witness ==
    /\ op = "scrape_all_company_details" /\ op_pc = "done"
    /\ Len(st_df) = 2
    /\ st_df[1]["company_url"] = NaN /\ ~st_log[1].fetched
    /\ st_log[2].fetched /\ st_log[2].kept
    /\ Len(OwnFetches) = 1
    /\ Len(csv_file[1]) = 1 /\ csv_file[1][1]["company_url"] = CompanyUrl
    /\ csv_file[1][1]["title"] = "QA"

----------------------------------------------------------------------------
(* create_city_comparison on a series file it cannot load (SpecSnap) *)

\* C28: a call whose count fetches all succeeded and which found a series
\* file it could not load returns a table and writes the file anew: the
\* file, now loadable, holds exactly the rows of this call, one per city,
\* and no row of the file found that is not also a row of this call.
C28_UnloadableFileOverwritten ==
    (/\ InComparison /\ op_pc = "done" /\ cc_ret # Some(None)
     /\ cc_before.exists /\ ~cc_before.readable)
        => /\ cc_ret # <<>> /\ cc_ret[1] # None
           /\ series_file.exists /\ series_file.readable
           /\ series_file.rows = NewRows
           /\ Len(series_file.rows) = Len(cc_cities)
           /\ \A i \in 1..Len(cc_before.rows) :
                 Occurrences(series_file.rows, cc_before.rows[i])
                     = Occurrences(NewRows, cc_before.rows[i])

C28_Witness ==
    /\ InComparison /\ op_pc = "done" /\ cc_ret # Some(None)
    /\ cc_before.exists /\ ~cc_before.readable /\ Len(cc_before.rows) = 1
    /\ Len(cc_cities) = 2
    /\ Len(series_file.rows) = 2
    /\ Occurrences(series_file.rows, cc_before.rows[1]) = 0

----------------------------------------------------------------------------
(* Count pages without a count (SpecSnapNoCount) *)

\* a page none of whose four labels gives a number
NoCountExtractable(body) ==
    \A i \in 1..4 :
        body.labels[i] = None \/ findall_numbers(body.labels[i][1]) = <<>>

ZeroCounts == <<Some(0), Some(0), Some(0), Some(0)>>

\* C30: when the count request of a city is answered with status 200 and
\* the page gives no count, get_total_jobs returns four zeros, which is not
\* the all-absent sentinel: the call keeps them and goes on to the next
\* city without returning; and a call that returned a table has persisted,
\* for every city whose counts were four zeros, a row of that city with
\* the date of the call and four zero counts.
C30_NoCountGivesZeros ==
    /\ [][(/\ SnapCountReturned /\ rq_ret # None
           /\ rq_ret[1].status = 200 /\ NoCountExtractable(rq_ret[1].body))
              => /\ counts_ret' = Some(ZeroCounts)
                 /\ ~all_absent(counts_ret'[1])
                 /\ cc_data' = Append(cc_data, ZeroCounts)
                 /\ op_pc' = "loop" /\ cc_ret' = <<>>]_vars
    /\ []((InComparison /\ op_pc = "done" /\ cc_ret # Some(None)) =>
            \A k \in 1..Len(cc_cities) :
                cc_data[k] = ZeroCounts =>
                    /\ Occurrences(cc_ret[1][1],
                                   series_row(cc_cities[k], ZeroCounts, today)) >= 1
                    /\ Occurrences(series_file.rows,
                           series_to_csv(<<series_row(cc_cities[k], ZeroCounts,
                                                      today)>>)[1]) >= 1)

C30_Witness ==
    /\ InComparison /\ op_pc = "done" /\ cc_ret # <<>> /\ cc_ret # Some(None)
    /\ rq_ret # None /\ rq_ret[1].status = 200 /\ rq_ret[1].body = EmptyBody
    /\ Len(cc_cities) = 2 /\ cc_data = <<ZeroCounts, ZeroCounts>>
    /\ ~cc_before.exists
    /\ Len(series_file.rows) = 2
    /\ \A f \in {"24h_Jobs", "Week_Jobs", "Month_Jobs", "Total_Jobs"} :
          series_file.rows[2][f] = Some(0)

----------------------------------------------------------------------------
(* The snapshot of a title before its scraping (SpecWorkflow) *)

ScrapingOps == {"scrape_all_jobs", "scrape_all_job_details", "scrape_all_company_details"}

\* the snapshot of the title the workflow is at has returned a table
SnapshotReturnedTable ==
    /\ wf_t >= 1 /\ cc_title = wf_titles[1][wf_t]
    /\ cc_ret # <<>> /\ cc_ret # Some(None)

\* C29: scrape_all_jobs, scrape_all_job_details and
\* scrape_all_company_details run, and the loop over the cities is entered,
\* only while the snapshot of the title the workflow is at has returned a
\* table; no request is made outside the snapshot and these calls; when
\* the snapshot returned None or raised, the workflow goes back to the loop
\* over the titles with no call started and the log of fetches as it was,
\* and from there its next step is the snapshot of the next title, or the
\* return after the last.
C29_ScrapingAfterSnapshotTable ==
    /\ []((op \in ScrapingOps \/ wf_pc \in {"cities", "city"}) => SnapshotReturnedTable)
    /\ []((rq_pc = "attempt" /\ wf_pc # "idle")
             => (wf_pc = "snapshot" /\ op = "create_city_comparison")
                \/ (wf_pc = "city" /\ op \in ScrapingOps))
    /\ [][(wf_pc = "snapshot" /\ wf_pc' # "snapshot" /\ ~SnapshotReturnedTable)
              => /\ wf_pc' = "titles" /\ op' = "none"
                 /\ fetch_log' = fetch_log /\ wf_t' = wf_t]_vars
    /\ [][(wf_pc = "titles" /\ wf_pc' # "titles")
              => IF wf_t < Len(wf_titles[1])
                 THEN /\ wf_t' = wf_t + 1 /\ wf_pc' = "snapshot"
                      /\ op' = "create_city_comparison"
                      /\ cc_title' = wf_titles[1][wf_t + 1]
                 ELSE wf_pc' = "done"]_vars

C29_Witness ==
    /\ wf_pc = "city" /\ op = "scrape_all_job_details" /\ wf_t = 2
    /\ Len(wf_visited) >= 5
    /\ wf_visited[2] = [kind |-> "snapshot", name |-> "None"]
    /\ wf_visited[3] = [kind |-> "title", name |-> DefaultJobPositions[2]]
    /\ wf_visited[4] = [kind |-> "snapshot", name |-> "table"]
    /\ SnapshotReturnedTable
    /\ fetch_log # <<>> /\ fetch_log[Len(fetch_log)].by # "get_total_jobs"

----------------------------------------------------------------------------
(* Properties of find_latest_jobs_cities (SpecDashboard) *)

\* the call returned a table
LatestReturned == fn = <<"find_latest_jobs_cities">> /\ fn_ret.raised = ""

\* the rows of a city in the series file, which is ascending by Date: the
\* snapshots of the city in the order of their dates
SnapshotsOf(city) == SelectSeq(series_file.rows, LAMBDA row : row["City"] = Some(city))

\* the count of a snapshot in the column the call asked for
ValueOf(row) == row[JOB_DATE_OPTIONS[fn_arg]][1]

\* the latest day of the series file, the date of its last row
LatestDay == series_file.rows[Len(series_file.rows)]["Date"]

RowsOfCity(df, city) == SelectSeq(df, LAMBDA row : row["City"] = Some(city))

\* C23: in the table find_latest_jobs_cities computes its deltas on, the
\* rows of a city are the snapshots of that city in the order of their
\* dates, the delta of the first is 0 and the delta of every other is its
\* count minus the count of the city's snapshot before it, never the count
\* of another city; and the rows returned for a city are those of the
\* latest day with these deltas.
C23_DeltaWithinCity ==
    LatestReturned =>
        \A group_keys \in BOOLEAN :
            LET table == with_delta(select_renamed(series_read_csv(series_file.rows),
                                                   JOB_DATE_OPTIONS[fn_arg]),
                                    group_keys)
            IN  \A k \in 1..Len(SortedCityNames) :
                    LET rows == RowsOfCity(table, SortedCityNames[k])
                        snapshots == SnapshotsOf(SortedCityNames[k])
                    IN  /\ Len(rows) = Len(snapshots)
                        /\ \A i \in 1..Len(rows) :
                              /\ rows[i]["Date"] = snapshots[i]["Date"]
                              /\ rows[i]["Total_Jobs"] = Some(ValueOf(snapshots[i]))
                              /\ rows[i]["delta"] =
                                    IF i = 1 THEN Some(0)
                                    ELSE Some(ValueOf(snapshots[i]) - ValueOf(snapshots[i - 1]))
                        /\ RowsOfCity(fn_ret.df, SortedCityNames[k])
                              = SelectSeq(rows, LAMBDA row : row["Date"] = LatestDay)

C23_Witness ==
    /\ LatestReturned /\ fn_arg = "Total"
    /\ Len(series_file.rows) = 3
    /\ series_file.rows[1]["City"] = Some("Ottawa") /\ series_file.rows[1]["Total_Jobs"] = Some(100)
    /\ series_file.rows[2]["City"] = Some("Toronto") /\ series_file.rows[2]["Total_Jobs"] = Some(40)
    /\ series_file.rows[3]["City"] = Some("Ottawa") /\ series_file.rows[3]["Total_Jobs"] = Some(130)
    /\ series_file.rows[1]["Date"] = Some(<<2024, 5, 1>>)
    /\ series_file.rows[2]["Date"] = Some(<<2024, 5, 2>>)
    /\ Len(fn_ret.df) = 2
    /\ fn_ret.df[1]["City"] = Some("Ottawa") /\ fn_ret.df[1]["Total_Jobs"] = Some(130)
    /\ fn_ret.df[1]["delta"] = Some(30)
    /\ fn_ret.df[2]["City"] = Some("Toronto") /\ fn_ret.df[2]["delta"] = Some(0)

\* the Date, City and asked count of a row
ViewOf(row) == <<row["Date"], row["City"], row["Total_Jobs"]>>

\* C24: the table find_latest_jobs_cities returns holds exactly the rows of
\* the series, of whatever city, whose Date is the largest Date text of
\* the series, each as often as the series has it and with the count of
\* the column asked for; that date, written by strftime('%Y-%m-%d'), is the
\* latest day of the series.
C24_LatestRowsExactly ==
    LatestReturned =>
        LET series == select_renamed(series_read_csv(series_file.rows),
                                     JOB_DATE_OPTIONS[fn_arg])
            largest == {i \in 1..Len(series) :
                           \A j \in 1..Len(series) :
                               text_le(series[j]["Date"][1], series[i]["Date"][1])}
        IN  /\ \A i \in 1..Len(fn_ret.df) :
                  \E j \in largest : ViewOf(fn_ret.df[i]) = ViewOf(series[j])
            /\ Len(fn_ret.df) = Cardinality(largest)
            /\ \A j \in largest :
                  Cardinality({i \in 1..Len(fn_ret.df) : ViewOf(fn_ret.df[i]) = ViewOf(series[j])})
                      = Cardinality({i \in largest : ViewOf(series[i]) = ViewOf(series[j])})
            /\ \A j \in largest : series[j]["Date"] = LatestDay

C24_Witness ==
    /\ LatestReturned /\ fn_arg = "Last Week"
    /\ Len(series_file.rows) = 3
    /\ series_file.rows[1]["City"] = Some("Toronto")
    /\ series_file.rows[1]["Date"] = Some(<<2024, 5, 1>>)
    /\ series_file.rows[2]["City"] = Some("Ottawa")
    /\ series_file.rows[2]["Date"] = Some(<<2024, 5, 1>>)
    /\ series_file.rows[3]["City"] = Some("Ottawa")
    /\ series_file.rows[3]["Date"] = Some(<<2024, 5, 2>>)
    /\ series_file.rows[3]["Week_Jobs"] = Some(25)
    /\ Len(fn_ret.df) = 1
    /\ fn_ret.df[1]["City"] = Some("Ottawa")
    /\ fn_ret.df[1]["Date"] = Some(<<2024, 5, 2>>)
    /\ fn_ret.df[1]["Total_Jobs"] = Some(25)

====
